---- MODULE Spec2Model ----
(***************************************************************************)
(* Flat-file-to-normalised-schema loaders of sales_ai_app:                 *)
(*   populate_db.py   - PostgreSQL loader (main and the parse_* readers)   *)
(*   mini_project2.py - SQLite loader (the step* functions)                *)
(* A string is a sequence of one-character strings, a raw line is a string *)
(* holding TAB separated fields, a file is a sequence of raw lines whose   *)
(* first line is the header.                                               *)
(***************************************************************************)
EXTENDS Integers, Sequences, FiniteSets, TLC

(***************************************************************************)
(* Python str primitives                                                   *)
(***************************************************************************)
TAB == "\t"
NL == "\n"
SP == " "
SEMI == ";"

\* the characters of the model in code-point order (str comparison order)
CharOrder ==
  << "\t", "\n", " ", "-", ".", "/", "0", "1", "2", "3", "4", "5", "6", "7",
     "8", "9", ";", "A", "B", "C", "D", "E", "F", "G", "H", "I", "J", "K",
     "L", "M", "N", "O", "P", "Q", "R", "S", "T", "U", "V", "W", "X", "Y",
     "Z", "a", "b", "c", "d", "e", "f", "g", "h", "i", "j", "k", "l", "m",
     "n", "o", "p", "q", "r", "s", "t", "u", "v", "w", "x", "y", "z" >>

Ord(c) == CHOOSE i \in 1..Len(CharOrder) : CharOrder[i] = c

Digits == {"0", "1", "2", "3", "4", "5", "6", "7", "8", "9"}

DigitVal(c) == Ord(c) - Ord("0")

IsWS(c) == c \in {" ", "\t", "\n"}

MinOf(S) == CHOOSE x \in S : \A y \in S : x <= y

MaxOf(S) == CHOOSE x \in S : \A y \in S : y <= x

\* a faulty strip that removes nothing
StripNothing(s) == s

\* str.strip()
Strip(s) ==
  LET idx == {i \in 1..Len(s) : ~IsWS(s[i])}
  IN  IF idx = {} THEN <<>> ELSE SubSeq(s, MinOf(idx), MaxOf(idx))

\* str.rstrip("\n")
RStripNL(s) ==
  LET idx == {i \in 1..Len(s) : s[i] # NL}
  IN  IF idx = {} THEN <<>> ELSE SubSeq(s, 1, MaxOf(idx))

\* the k-th smallest of a set of numbers
Nth(S, k) == CHOOSE i \in S : Cardinality({j \in S : j < i}) = k - 1

\* str.split(sep) for a one-character separator: never empty, keeps empty
\* fields; field k lies between the (k-1)-th and the k-th separator
Split(s, sep) ==
  LET at == {i \in 1..Len(s) : s[i] = sep}
      n == Cardinality(at)
      cut == [k \in 0..(n + 1) |->
                IF k = 0 THEN 0 ELSE IF k = n + 1 THEN Len(s) + 1 ELSE Nth(at, k)]
  IN  [k \in 1..(n + 1) |-> SubSeq(s, cut[k - 1] + 1, cut[k] - 1)]

\* a faulty SplitWS: splits at every single blank
SplitAtBlank(s) == Split(s, " ")

\* str.split() without argument: the maximal runs of non-whitespace, no
\* empty token
SplitWS(s) ==
  LET first == {i \in 1..Len(s) : ~IsWS(s[i]) /\ (i = 1 \/ IsWS(s[i - 1]))}
      last == {i \in 1..Len(s) : ~IsWS(s[i]) /\ (i = Len(s) \/ IsWS(s[i + 1]))}
  IN  [k \in 1..Cardinality(first) |-> SubSeq(s, Nth(first, k), Nth(last, k))]

\* sep.join(list)
RECURSIVE Join(_, _)
Join(ss, sep) ==
  IF Len(ss) = 0 THEN <<>>
  ELSE IF Len(ss) = 1 THEN ss[1]
  ELSE ss[1] \o sep \o Join(Tail(ss), sep)

\* s < t for str: code-point lexicographic order
RECURSIVE StrLess(_, _)
StrLess(s, t) ==
  IF Len(t) = 0 THEN FALSE
  ELSE IF Len(s) = 0 THEN TRUE
  ELSE IF s[1] = t[1] THEN StrLess(Tail(s), Tail(t))
  ELSE Ord(s[1]) < Ord(t[1])

StrLeq(s, t) == s = t \/ StrLess(s, t)

\* zip of parallel lists: the positions 1..length of the shortest list
ZipLen2(a, b) == IF Len(a) <= Len(b) THEN Len(a) ELSE Len(b)

\* a zip that stops one element early
ZipLen3Early(a, b, c) == IF Len(a) = 0 THEN 0 ELSE Len(a) - 1

ZipLen3(a, b, c) == ZipLen2(a, SubSeq(b, 1, ZipLen2(b, c)))

(***************************************************************************)
(* Python conversions: float(), int(), datetime.strptime(.., "%Y%m%d")     *)
(* A conversion returns [ok |-> FALSE] where Python raises ValueError.     *)
(***************************************************************************)
Fail == [ok |-> FALSE]

AllDigits(s) == \A i \in 1..Len(s) : s[i] \in Digits

\* value of a digit string
RECURSIVE DigitsVal(_)
DigitsVal(s) ==
  IF Len(s) = 0 THEN 0
  ELSE 10 * DigitsVal(SubSeq(s, 1, Len(s) - 1)) + DigitVal(s[Len(s)])

\* a digit string without its trailing zeros
RECURSIVE DropTrailingZeros(_)
DropTrailingZeros(s) ==
  IF Len(s) > 0 /\ s[Len(s)] = "0"
  THEN DropTrailingZeros(SubSeq(s, 1, Len(s) - 1))
  ELSE s

\* float(p): [sign] digits [. [digits]] or [sign] . digits, surrounding
\* whitespace allowed.  The value is mant * 10^-scale with no trailing zero,
\* so "1.5" and "1.50" are the same float.  (Exponents, inf and nan need
\* letters that no price token of the model has.)
PyFloat(p) ==
  LET t == Strip(p)
      neg == Len(t) > 0 /\ t[1] = "-"
      u == IF neg THEN Tail(t) ELSE t
      parts == Split(u, ".")
      ip == parts[1]
      fp == IF Len(parts) > 1 THEN parts[2] ELSE <<>>
      fz == DropTrailingZeros(fp)
      m == DigitsVal(ip \o fz)
  IN  IF /\ Len(parts) <= 2
         /\ AllDigits(ip) /\ AllDigits(fp)
         /\ Len(ip) + Len(fp) > 0
      THEN [ok |-> TRUE, v |-> <<IF neg THEN 0 - m ELSE m, Len(fz)>>]
      ELSE Fail

\* a digit string without its leading zeros ("0" for zero)
RECURSIVE DropLeadingZeros(_)
DropLeadingZeros(s) ==
  IF Len(s) > 1 /\ s[1] = "0" THEN DropLeadingZeros(Tail(s)) ELSE s

\* int(q): [sign] digits, surrounding whitespace allowed.  A Python int is
\* unbounded, so the value is kept as <<negative, decimal digits>>.
PyInt(q) ==
  LET t == Strip(q)
      neg == Len(t) > 0 /\ t[1] = "-"
      u == IF neg THEN Tail(t) ELSE t
      d == DropLeadingZeros(u)
  IN  IF Len(u) > 0 /\ AllDigits(u)
      THEN [ok |-> TRUE, v |-> <<neg /\ d # <<"0">>, d>>]
      ELSE Fail

IsLeap(y) == (y % 4 = 0 /\ y % 100 # 0) \/ y % 400 = 0

DaysIn(y, m) ==
  IF m = 2 THEN (IF IsLeap(y) THEN 29 ELSE 28)
  ELSE IF m \in {4, 6, 9, 11} THEN 30 ELSE 31

\* the prefixes of s that the %m pattern 1[0-2]|0[1-9]|[1-9] can take, in
\* the order the regex tries them
MonthAlts(s) ==
  (IF Len(s) >= 2 /\ s[1] = "1" /\ s[2] \in {"0", "1", "2"} THEN <<2>> ELSE <<>>)
  \o (IF Len(s) >= 2 /\ s[1] = "0" /\ s[2] \in Digits \ {"0"} THEN <<2>> ELSE <<>>)
  \o (IF Len(s) >= 1 /\ s[1] \in Digits \ {"0"} THEN <<1>> ELSE <<>>)

\* the same for %d: 3[0-1]|[1-2]\d|0[1-9]|[1-9]| [1-9]
DayAlts(s) ==
  (IF Len(s) >= 2 /\ s[1] = "3" /\ s[2] \in {"0", "1"} THEN <<2>> ELSE <<>>)
  \o (IF Len(s) >= 2 /\ s[1] \in {"1", "2"} /\ s[2] \in Digits THEN <<2>> ELSE <<>>)
  \o (IF Len(s) >= 2 /\ s[1] = "0" /\ s[2] \in Digits \ {"0"} THEN <<2>> ELSE <<>>)
  \o (IF Len(s) >= 1 /\ s[1] \in Digits \ {"0"} THEN <<1>> ELSE <<>>)
  \o (IF Len(s) >= 2 /\ s[1] = " " /\ s[2] \in Digits \ {"0"} THEN <<2>> ELSE <<>>)

\* datetime.strptime(dt, "%Y%m%d").date(): the first regex match of
\* \d\d\d\d, %m, %d from the start of dt, which must consume all of dt and
\* name a calendar day
Strptime(dt) ==
  IF Len(dt) < 4 \/ ~AllDigits(SubSeq(dt, 1, 4)) THEN Fail
  ELSE
    LET y == DigitsVal(SubSeq(dt, 1, 4))
        r == SubSeq(dt, 5, Len(dt))
        ms == MonthAlts(r)
        \* first month alternative after which some day alternative matches
        good == {i \in 1..Len(ms) : DayAlts(SubSeq(r, ms[i] + 1, Len(r))) # <<>>}
    IN  IF good = {} THEN Fail
        ELSE
          LET ml == ms[MinOf(good)]
              r2 == SubSeq(r, ml + 1, Len(r))
              dl == DayAlts(r2)[1]
              m == DigitsVal(SubSeq(r, 1, ml))
              d == DigitsVal(Strip(SubSeq(r2, 1, dl)))
          IN  IF dl = Len(r2) /\ y >= 1 /\ d <= DaysIn(y, m)
              THEN [ok |-> TRUE, v |-> <<y, m, d>>]
              ELSE Fail

(***************************************************************************)
(* Sorting and lookups                                                     *)
(***************************************************************************)
\* tuple comparison a <= b of tuples of str
RECURSIVE TupLeq(_, _)
TupLeq(a, b) ==
  IF Len(a) = 0 THEN TRUE
  ELSE IF Len(b) = 0 THEN FALSE
  ELSE IF a[1] = b[1] THEN TupLeq(Tail(a), Tail(b))
  ELSE StrLess(a[1], b[1])

\* a faulty SortedBy: the elements in any order (the sort is lost)
RECURSIVE SortedByNone(_, _)
SortedByNone(S, kf) ==
  IF S = {} THEN {<<>>}
  ELSE UNION {{<<x>> \o r : r \in SortedByNone(S \ {x}, kf)} : x \in S}

\* sorted(S, key=...): list.sort is stable and a set has no defined
\* iteration order, so elements with equal keys come out in any order.
\* kf maps each element to its key, a tuple of str.  The result is the set
\* of the orders sorted() can return.
RECURSIVE SortedBy(_, _)
SortedBy(S, kf) ==
  IF S = {} THEN {<<>>}
  ELSE LET mins == {x \in S : \A y \in S : TupLeq(kf[x], kf[y])}
       IN  UNION {{<<x>> \o r : r \in SortedBy(S \ {x}, kf)} : x \in mins}

\* {key(row): id for row in fetchall()}: rows come back in id order and a
\* later row overwrites an earlier one with the same key.  kf maps a row
\* index (the surrogate id) to the key of that row.
DictOf(n, kf) ==
  [k \in {kf[i] : i \in 1..n} |-> MaxOf({i \in 1..n : kf[i] = k})]

(***************************************************************************)
(* populate_db.py: the readers.  A file is a sequence of raw lines, the    *)
(* first one being the header; a file without lines makes next(f) raise.   *)
(***************************************************************************)
\* the lines "for line in f" yields after next(f) skipped the header
DataLines(f) == [i \in 1..(Len(f) - 1) |-> f[i + 1] \o <<NL>>]

\* line.rstrip("\n").split("\t")
Parts(line) == Split(RStripNL(line), TAB)

\* a faulty parse_regions: a line needs more than five fields
parse_regions_six(f) ==
  LET ls == DataLines(f)
      regions == {Strip(Parts(ls[i])[5]) :
                    i \in {j \in 1..Len(ls) :
                             /\ Len(Parts(ls[j])) > 5
                             /\ Strip(Parts(ls[j])[5]) # <<>>}}
  IN  SortedBy(regions, [r \in regions |-> <<r>>])

\* parse_regions: sorted set of the non-empty trimmed field 4
parse_regions(f) ==
  LET ls == DataLines(f)
      regions == {Strip(Parts(ls[i])[5]) :
                    i \in {j \in 1..Len(ls) :
                             /\ Len(Parts(ls[j])) > 4
                             /\ Strip(Parts(ls[j])[5]) # <<>>}}
  IN  SortedBy(regions, [r \in regions |-> <<r>>])

\* parse_countries: set of (country, region), sorted by country
parse_countries(f) ==
  LET ls == DataLines(f)
      pairs == {<<Strip(Parts(ls[i])[4]), Strip(Parts(ls[i])[5])>> :
                  i \in {j \in 1..Len(ls) :
                           /\ Len(Parts(ls[j])) > 4
                           /\ Strip(Parts(ls[j])[4]) # <<>>
                           /\ Strip(Parts(ls[j])[5]) # <<>>}}
  IN  SortedBy(pairs, [x \in pairs |-> <<x[1]>>])

\* parse_productcategories: set of (category, description) over the zipped
\* lists of fields 6 and 7, sorted by category
parse_productcategories(f) ==
  LET ls == DataLines(f)
      rowcats(line) ==
        LET parts == Parts(line)
            cat_list == Split(parts[7], SEMI)
            desc_list == Split(parts[8], SEMI)
        IN  {<<Strip(cat_list[i]), Strip(desc_list[i])>> :
               i \in {j \in 1..ZipLen2(cat_list, desc_list) :
                        Strip(cat_list[j]) # <<>>}}
      cats == UNION {rowcats(ls[i]) :
                       i \in {j \in 1..Len(ls) : Len(Parts(ls[j])) > 7}}
  IN  SortedBy(cats, [x \in cats |-> <<x[1]>>])

\* a faulty ProductPositions: the first position that fails ends the row
\* (break for continue)
ProductPositionsBreak(names, cats, prices) ==
  {j \in 1..ZipLen3(names, cats, prices) :
     \A k \in 1..j :
       /\ Strip(names[k]) # <<>>
       /\ Strip(cats[k]) # <<>>
       /\ Strip(prices[k]) # <<>>
       /\ PyFloat(Strip(prices[k])).ok}

\* the zipped positions of (names, cats, prices) that parse_products keeps:
\* name, category and price non-empty and the price a float; a position
\* that fails is skipped (continue) and the next one is looked at
ProductPositions(names, cats, prices) ==
  {j \in 1..ZipLen3(names, cats, prices) :
     /\ Strip(names[j]) # <<>>
     /\ Strip(cats[j]) # <<>>
     /\ Strip(prices[j]) # <<>>
     /\ PyFloat(Strip(prices[j])).ok}

\* parse_products: set of (productname, category, unitprice) over the
\* zipped lists of fields 5, 6 and 8, sorted by product name
parse_products(f) ==
  LET ls == DataLines(f)
      rowprods(line) ==
        LET parts == Parts(line)
            names == Split(parts[6], SEMI)
            cats == Split(parts[7], SEMI)
            prices == Split(parts[9], SEMI)
        IN  {<<Strip(names[i]), Strip(cats[i]), PyFloat(Strip(prices[i])).v>> :
               i \in ProductPositions(names, cats, prices)}
      prods == UNION {rowprods(ls[i]) :
                        i \in {j \in 1..Len(ls) : Len(Parts(ls[j])) > 8}}
  IN  SortedBy(prods, [x \in prods |-> <<x[1]>>])

\* parse_customers: set of (firstname, lastname, address, city, country),
\* sorted by "First Last"
parse_customers(f, valid_countries) ==
  LET ls == DataLines(f)
      cust(line) ==
        LET parts == Parts(line)
            name_parts == SplitWS(Strip(parts[1]))
        IN  << name_parts[1],
               IF Len(name_parts) > 1 THEN Join(Tail(name_parts), <<SP>>) ELSE <<>>,
               Strip(parts[2]), Strip(parts[3]), Strip(parts[4]) >>
      custs == {cust(ls[i]) :
                  i \in {j \in 1..Len(ls) :
                           /\ Len(Parts(ls[j])) > 4
                           /\ Strip(Parts(ls[j])[4]) # <<>>
                           /\ Strip(Parts(ls[j])[4]) \in valid_countries
                           /\ Strip(Parts(ls[j])[1]) # <<>>}}
  IN  SortedBy(custs, [x \in custs |-> <<x[1] \o <<SP>> \o x[2]>>])

\* the rows parse_orders appends for one raw line
OrdersOfLine(line, customer_map, product_map) ==
  LET parts == Parts(line)
      name == Strip(Join(SplitWS(parts[1]), <<SP>>))
  IN  IF ~(Len(parts) > 10) \/ name \notin DOMAIN customer_map THEN <<>>
      ELSE
        LET prod_names == [i \in 1..Len(Split(parts[6], SEMI)) |->
                             Strip(Split(parts[6], SEMI)[i])]
            qtys == [i \in 1..Len(Split(parts[10], SEMI)) |->
                       Strip(Split(parts[10], SEMI)[i])]
            dates == [i \in 1..Len(Split(parts[11], SEMI)) |->
                        Strip(Split(parts[11], SEMI)[i])]
            n == ZipLen3(prod_names, qtys, dates)
            RECURSIVE go(_)
            go(i) ==
              IF i > n THEN <<>>
              ELSE IF /\ prod_names[i] \in DOMAIN product_map
                      /\ PyInt(qtys[i]).ok
                      /\ Strptime(dates[i]).ok
                   THEN << << customer_map[name], product_map[prod_names[i]],
                              Strptime(dates[i]).v, PyInt(qtys[i]).v >> >>
                        \o go(i + 1)
                   ELSE go(i + 1)
        IN  go(1)

\* parse_orders: the list of (customerid, productid, orderdate, quantity)
\* in file order, not deduplicated
parse_orders(f, customer_map, product_map) ==
  LET ls == DataLines(f)
      RECURSIVE go(_)
      go(i) ==
        IF i > Len(ls) THEN <<>>
        ELSE OrdersOfLine(ls[i], customer_map, product_map) \o go(i + 1)
  IN  go(1)

(***************************************************************************)
(* The store.  A table is the sequence of its rows in insertion order; a   *)
(* freshly created table numbers its rows 1, 2, ... (SERIAL / INTEGER      *)
(* PRIMARY KEY), so the surrogate id of a row is its index.  Rows are the  *)
(* tuples of the INSERT statements:                                        *)
(*   region          <<region>>                                            *)
(*   country         <<country, regionid>>                                 *)
(*   productcategory <<productcategory, productcategorydescription>>       *)
(*   product         <<productname, productunitprice, productcategoryid>>  *)
(*   customer        <<firstname, lastname, address, city, countryid>>     *)
(*   orderdetail     <<customerid, productid, orderdate, quantityordered>> *)
(***************************************************************************)
TableNames ==
  {"region", "country", "productcategory", "product", "customer", "orderdetail"}

NoRows == [t \in TableNames |-> <<>>]

\* a database without tables; fks holds the declared REFERENCES as
\* <<child table, parent table>>
EmptyStore == [tables |-> {}, rows |-> NoRows, fks |-> {}]

\* the REFERENCES clauses of DDL_SQL
SchemaFKs ==
  { <<"country", "region">>, <<"customer", "country">>,
    <<"product", "productcategory">>, <<"orderdetail", "customer">>,
    <<"orderdetail", "product">> }

References(t) == {f[2] : f \in {g \in SchemaFKs : g[1] = t}}

\* the statements of DDL_SQL in script order
DDLStatements ==
  << [op |-> "drop", t |-> "orderdetail"], [op |-> "drop", t |-> "product"],
     [op |-> "drop", t |-> "productcategory"], [op |-> "drop", t |-> "customer"],
     [op |-> "drop", t |-> "country"], [op |-> "drop", t |-> "region"],
     [op |-> "create", t |-> "region"], [op |-> "create", t |-> "country"],
     [op |-> "create", t |-> "customer"], [op |-> "create", t |-> "productcategory"],
     [op |-> "create", t |-> "product"], [op |-> "create", t |-> "orderdetail"] >>

\* a faulty DropTable: the table is left as it is
DropTableSkipped(store, t) == store

\* DROP TABLE IF EXISTS t CASCADE: the table, its rows and every REFERENCES
\* constraint from or to it go
DropTable(store, t) ==
  [tables |-> store.tables \ {t},
   rows |-> [store.rows EXCEPT ![t] = <<>>],
   fks |-> {f \in store.fks : f[1] # t /\ f[2] # t}]

\* CREATE TABLE t (... REFERENCES parent ...): fails when t exists or a
\* referenced table does not
CanCreate(store, t) == t \notin store.tables /\ References(t) \subseteq store.tables

CreateTable(store, t) ==
  [tables |-> store.tables \cup {t},
   rows |-> [store.rows EXCEPT ![t] = <<>>],
   fks |-> store.fks \cup {<<t, p>> : p \in References(t)}]

\* the store after the first k statements of DDL_SQL
RECURSIVE DDLPrefix(_, _)
DDLPrefix(store, k) ==
  IF k = 0 THEN store
  ELSE IF DDLStatements[k].op = "drop"
       THEN DropTable(DDLPrefix(store, k - 1), DDLStatements[k].t)
       ELSE CreateTable(DDLPrefix(store, k - 1), DDLStatements[k].t)

\* the statements of DDL_SQL that the server rejects on store
DDLRejected(store) ==
  {k \in 1..Len(DDLStatements) :
     /\ DDLStatements[k].op = "create"
     /\ ~CanCreate(DDLPrefix(store, k - 1), DDLStatements[k].t)}

\* DDL_SQL run to its end
DDL_SQL(store) == DDLPrefix(store, Len(DDLStatements))

\* a faulty Rollback: the open transaction is kept (autocommit)
RollbackKeeps(committed, open) == open

\* what the server keeps of an open transaction whose connection ends
\* without commit
Rollback(committed, open) == committed

\* the largest value of a PostgreSQL INTEGER column, as decimal digits
Int4Max == <<"2", "1", "4", "7", "4", "8", "3", "6", "4", "7">>

\* does the Python int v fit quantityordered INTEGER
FitsInteger(v) ==
  \/ Len(v[2]) < Len(Int4Max)
  \/ Len(v[2]) = Len(Int4Max) /\ StrLeq(v[2], Int4Max)
  \/ v[1] /\ v[2] = <<"2", "1", "4", "7", "4", "8", "3", "6", "4", "8">>

\* the REFERENCES constraints and column types of DDL_SQL: can the store
\* accept the batch of rows for table t
Accepts(store, t, batch) ==
  /\ t \in store.tables
  /\ \A i \in 1..Len(batch) :
       CASE t = "country" -> batch[i][2] \in 1..Len(store.rows["region"])
         [] t = "product" -> batch[i][3] \in 1..Len(store.rows["productcategory"])
         [] t = "customer" -> batch[i][5] \in 1..Len(store.rows["country"])
         [] t = "orderdetail" ->
              /\ batch[i][1] \in 1..Len(store.rows["customer"])
              /\ batch[i][2] \in 1..Len(store.rows["product"])
              /\ FitsInteger(batch[i][4])
         [] OTHER -> TRUE

\* a faulty InsertInto: every batch goes to the Region table
InsertIntoRegion(store, t, batch) ==
  [store EXCEPT !.rows["region"] = @ \o batch]

\* a faulty InsertInto: a row that occurs again in the batch is inserted once
InsertIntoDistinct(store, t, batch) ==
  LET first == {k \in 1..Len(batch) : \A m \in 1..(k - 1) : batch[m] # batch[k]}
  IN  [store EXCEPT !.rows[t] =
         @ \o [n \in 1..Cardinality(first) |-> batch[Nth(first, n)]]]

\* extras.execute_batch(cur, "INSERT INTO t ...", batch)
InsertInto(store, t, batch) ==
  [store EXCEPT !.rows[t] = @ \o batch]

\* a faulty NameMap: the position in the fetched list, counted from 0, is
\* taken for the id
NameMapFromZero(store, t) ==
  [k \in {store.rows[t][i][1] : i \in 1..Len(store.rows[t])} |->
     MaxOf({i \in 1..Len(store.rows[t]) : store.rows[t][i][1] = k}) - 1]

\* cur.execute("SELECT region, regionid FROM region") and the dict built
\* from it; likewise for country, productcategory and product
NameMap(store, t) ==
  DictOf(Len(store.rows[t]), [i \in 1..Len(store.rows[t]) |-> store.rows[t][i][1]])

\* {f"{f} {l}".strip(): cid for f, l, cid in cur.fetchall()}
CustMap(store) ==
  DictOf(Len(store.rows["customer"]),
         [i \in 1..Len(store.rows["customer"]) |->
            Strip(store.rows["customer"][i][1] \o <<SP>> \o store.rows["customer"][i][2])])

\* country_rows of main: the pairs whose region is in region_map
CountryRows(country_pairs, rmap) ==
  LET keep == SelectSeq(country_pairs, LAMBDA x : x[2] \in DOMAIN rmap)
  IN  [i \in 1..Len(keep) |-> <<keep[i][1], rmap[keep[i][2]]>>]

\* product_rows of main: the products whose category is in cat_map
ProductRows(products_raw, cmap) ==
  LET keep == SelectSeq(products_raw, LAMBDA x : x[2] \in DOMAIN cmap)
  IN  [i \in 1..Len(keep) |-> <<keep[i][1], keep[i][3], cmap[keep[i][2]]>>]

\* customer_rows of main
CustomerRows(customers_raw, cmap) ==
  [i \in 1..Len(customers_raw) |->
     << customers_raw[i][1], customers_raw[i][2], customers_raw[i][3],
        customers_raw[i][4], cmap[customers_raw[i][5]] >>]

(***************************************************************************)
(* mini_project2.py: the SQLite step functions.  DDL runs in autocommit    *)
(* mode, so create_table takes effect before the data file is opened.      *)
(***************************************************************************)
\* l.split('\t') of a raw line, newline included
RawParts(l) == Split(l, TAB)

\* l.strip().split('\t')
SParts(l) == Split(Strip(l), TAB)

\* create_connection: PRAGMA foreign_keys = 1
create_connection == TRUE

\* SQLite with foreign keys off: DROP TABLE IF EXISTS t removes t and its
\* rows; the FOREIGN KEY clauses of other tables stay
SqliteDrop(store, t) ==
  [tables |-> store.tables \ {t},
   rows |-> [store.rows EXCEPT ![t] = <<>>],
   fks |-> {f \in store.fks : f[1] # t}]

\* SQLite: CREATE TABLE t; a parent named in FOREIGN KEY need not exist
SqliteCreate(store, t) ==
  [tables |-> store.tables \cup {t},
   rows |-> store.rows,
   fks |-> store.fks \cup {<<t, p>> : p \in References(t)}]

\* create_table(conn, "CREATE TABLE t ...", t) where the DROP or the CREATE
\* may raise sqlite3.Error (CREATE raises when t still exists):
\* try: PRAGMA foreign_keys = 0; DROP TABLE IF EXISTS t;
\* PRAGMA foreign_keys = 1  except Error: print;
\* try: CREATE TABLE t  except Error: print
create_table_raising(store, t, dropRaises, createRaises) ==
  LET dropped == IF dropRaises THEN store ELSE SqliteDrop(store, t)
      creates == ~createRaises /\ t \notin dropped.tables
  IN  [store |-> IF creates THEN SqliteCreate(dropped, t) ELSE dropped,
       fk |-> IF dropRaises THEN FALSE ELSE create_connection,
       printed |-> (IF dropRaises THEN {"drop"} ELSE {})
                   \cup (IF creates THEN {} ELSE {"create"})]

\* create_table when no statement raises
create_table(store, t) == create_table_raising(store, t, FALSE, FALSE).store

\* step6_create_customer_to_customerid_dictionary: {f"{r[0]} {r[1]}": r[2]}
step6_dictionary(store) ==
  DictOf(Len(store.rows["customer"]),
         [i \in 1..Len(store.rows["customer"]) |->
            store.rows["customer"][i][1] \o <<SP>> \o store.rows["customer"][i][2]])

\* the largest value of an SQLite integer, as decimal digits
Int64Max ==
  << "9", "2", "2", "3", "3", "7", "2", "0", "3", "6", "8", "5", "4", "7",
     "7", "5", "8", "0", "7" >>

\* sqlite3 raises OverflowError when binding a larger Python int
FitsInt64(v) ==
  \/ Len(v[2]) < Len(Int64Max)
  \/ Len(v[2]) = Len(Int64Max) /\ StrLeq(v[2], Int64Max)

\* Each step function is described by [raises, out]: whether reading the
\* data file raises (StopIteration of next(f) on an empty file, IndexError,
\* ValueError), and otherwise the batches that sorted(...) can hand to
\* executemany.

\* step1_create_region_table
step1(f) ==
  LET ls == DataLines(f)
      sel == {i \in 1..Len(ls) : Len(RawParts(ls[i])) > 4}
      elems == {<<SParts(ls[i])[5]>> : i \in sel}
  IN  IF Len(f) = 0 \/ \E i \in sel : Len(SParts(ls[i])) < 5
      THEN [raises |-> TRUE, out |-> {}]
      ELSE [raises |-> FALSE, out |-> SortedBy(elems, [x \in elems |-> x])]

\* step3_create_country_table
step3(f, rmap) ==
  LET ls == DataLines(f)
      long == {i \in 1..Len(ls) : Len(RawParts(ls[i])) > 4}
      sel == {i \in long : SParts(ls[i])[5] \in DOMAIN rmap}
      elems == {<<SParts(ls[i])[4], rmap[SParts(ls[i])[5]]>> : i \in sel}
  IN  IF Len(f) = 0 \/ \E i \in long : Len(SParts(ls[i])) < 5
      THEN [raises |-> TRUE, out |-> {}]
      ELSE [raises |-> FALSE, out |-> SortedBy(elems, [x \in elems |-> <<x[1]>>])]

\* step5_create_customer_table
step5(f, cmap) ==
  LET ls == DataLines(f)
      sel == {i \in 1..Len(ls) :
                Len(SParts(ls[i])) > 4 /\ SParts(ls[i])[4] \in DOMAIN cmap}
      row(l) ==
        LET p == SParts(l)
            nm == SplitWS(p[1])
        IN  <<nm[1], Join(Tail(nm), <<SP>>), p[2], p[3], cmap[p[4]]>>
      data == {row(ls[i]) : i \in sel}
  IN  IF Len(f) = 0 \/ \E i \in sel : SplitWS(SParts(ls[i])[1]) = <<>>
      THEN [raises |-> TRUE, out |-> {}]
      ELSE [raises |-> FALSE,
            out |-> SortedBy(data, [x \in data |-> <<x[1] \o <<SP>> \o x[2]>>])]

\* step7_create_productcategory_table
step7(f) ==
  LET ls == DataLines(f)
      sel == {i \in 1..Len(ls) : Len(RawParts(ls[i])) > 7}
      rowcats(l) ==
        LET cats == Split(SParts(l)[7], SEMI)
            descs == Split(SParts(l)[8], SEMI)
        IN  {<<cats[j], descs[j]>> : j \in 1..ZipLen2(cats, descs)}
      elems == UNION {rowcats(ls[i]) : i \in sel}
  IN  IF Len(f) = 0 \/ \E i \in sel : Len(SParts(ls[i])) < 8
      THEN [raises |-> TRUE, out |-> {}]
      ELSE [raises |-> FALSE, out |-> SortedBy(elems, [x \in elems |-> x])]

\* step9_create_product_table
step9(f, catmap) ==
  LET ls == DataLines(f)
      sel == {i \in 1..Len(ls) : Len(RawParts(ls[i])) > 8}
      names(l) == Split(SParts(l)[6], SEMI)
      cats(l) == Split(SParts(l)[7], SEMI)
      prices(l) == Split(SParts(l)[9], SEMI)
      pos(l) == {j \in 1..ZipLen3(names(l), cats(l), prices(l)) :
                   cats(l)[j] \in DOMAIN catmap}
      rowprods(l) ==
        {<<names(l)[j], PyFloat(prices(l)[j]).v, catmap[cats(l)[j]]>> : j \in pos(l)}
      elems == UNION {rowprods(ls[i]) : i \in sel}
  IN  IF \/ Len(f) = 0
         \/ \E i \in sel : Len(SParts(ls[i])) < 9
         \/ \E i \in sel : \E j \in pos(ls[i]) : ~PyFloat(prices(ls[i])[j]).ok
      THEN [raises |-> TRUE, out |-> {}]
      ELSE [raises |-> FALSE, out |-> SortedBy(elems, [x \in elems |-> <<x[1]>>])]

\* the aligned positions of one line that step11 turns into orders
Step11Positions(l, custmap, prodmap) ==
  LET p == SParts(l)
      cname == Join(SplitWS(p[1]), <<SP>>)
  IN  IF ~(Len(p) > 10) \/ cname \notin DOMAIN custmap THEN {}
      ELSE {j \in 1..ZipLen3(Split(p[6], SEMI), Split(p[10], SEMI), Split(p[11], SEMI)) :
              Strip(Split(p[6], SEMI)[j]) \in DOMAIN prodmap}

\* the loop of step11_create_orderdetail_table that fills the list orders;
\* the order date is kept as the calendar day that strftime('%Y-%m-%d')
\* writes.  A token that int or strptime rejects raises out of the loop.
step11_orders(f, custmap, prodmap) ==
  LET ls == DataLines(f)
      order(l, j) ==
        LET p == SParts(l)
        IN  << custmap[Join(SplitWS(p[1]), <<SP>>)],
               prodmap[Strip(Split(p[6], SEMI)[j])],
               Strptime(Strip(Split(p[11], SEMI)[j])).v,
               PyInt(Split(p[10], SEMI)[j]).v >>
      bad(l, j) ==
        LET p == SParts(l)
        IN  \/ ~Strptime(Strip(Split(p[11], SEMI)[j])).ok
            \/ ~PyInt(Split(p[10], SEMI)[j]).ok
      RECURSIVE ofLine(_, _)
      ofLine(l, j) ==
        IF j > Len(Split(SParts(l)[6], SEMI)) THEN <<>>
        ELSE IF j \in Step11Positions(l, custmap, prodmap)
             THEN <<order(l, j)>> \o ofLine(l, j + 1)
             ELSE ofLine(l, j + 1)
      RECURSIVE go(_)
      go(i) ==
        IF i > Len(ls) THEN <<>>
        ELSE IF Step11Positions(ls[i], custmap, prodmap) = {} THEN go(i + 1)
        ELSE ofLine(ls[i], 1) \o go(i + 1)
  IN  IF \/ Len(f) = 0
         \/ \E i \in 1..Len(ls) :
              \E j \in Step11Positions(ls[i], custmap, prodmap) : bad(ls[i], j)
      THEN [raises |-> TRUE, out |-> <<>>]
      ELSE [raises |-> FALSE, out |-> go(1)]

\* step11_create_orderdetail_table: the list orders, then executemany,
\* which raises OverflowError on a quantity beyond 64 bits
step11(f, custmap, prodmap) ==
  LET r == step11_orders(f, custmap, prodmap)
  IN  IF r.raises THEN [raises |-> TRUE, out |-> {}]
      ELSE IF \E k \in 1..Len(r.out) : ~FitsInt64(r.out[k][4])
      THEN [raises |-> TRUE, out |-> {}]
      ELSE [raises |-> FALSE, out |-> {r.out}]

(***************************************************************************)
(* Input files                                                             *)
(***************************************************************************)
\* the characters of a string literal
Str(s) == [i \in 1..Len(s) |-> SubSeq(s, i, i)]

\* most data lines of an input file
MaxRows == 2

Header == Str("Name\tRegion")

\* raw data lines: name, address, city, country, region, product names,
\* categories, category descriptions, unit prices, quantities, order dates
RawLines ==
  { \* a clean single-item order
    Str("An Cz\ta\tc\tFR\tEU\tX\tK\td\t1.50\t3\t20230115"),
    \* the same customer, country, category and product with another
    \* region, description and price; padded name
    Str(" An  Cz \ta\tc\tFR\tAS\tX\tK\tx\t2\t1\t20230102"),
    \* the same customer in another country; a bad price in the middle
    Str("An Cz\ta\tc\tDE\tEU\tY;Q;X\tM;M;K\te;e;d\t1;N/A;1.5\t2;4;5;6\t20230103;20230104;20230105"),
    \* bad quantity, bad date, then a valid position
    Str("Bo\tb\tc\tDE\tEU\tX;X;X\tK\td\t1.5\tx;2;7\t20230101;20231301;20230107"),
    \* five fields only, a region no other line has, one-token name
    Str("Bo\tb\tc\tIT\tMA"),
    \* empty region as last field
    Str("Di\td\tc\tES\t"),
    \* blank name
    Str(" \ta\tc\tFR\tEU\tX\tK\td\t1.50\t1\t20230101"),
    \* too few fields for every entity
    Str("Bo\tb"),
    \* a quantity beyond INTEGER
    Str("An Cz\ta\tc\tFR\tEU\tX\tK\td\t1.50\t3000000000\t20230115") }

RECURSIVE SeqsUpTo(_, _)
SeqsUpTo(S, n) ==
  IF n = 0 THEN {<<>>}
  ELSE LET shorter == SeqsUpTo(S, n - 1)
       IN  shorter \cup {Append(q, x) : q \in shorter, x \in S}

\* the empty file, and a header followed by up to MaxRows data lines
Files == {<<>>} \cup {<<Header>> \o d : d \in SeqsUpTo(RawLines, MaxRows)}

\* most entries of one ;-separated list of a raw row
MaxItems == 2

\* the tokens a list of a raw row is made of, each with what it stands for:
\* the id of the product it names (0: no such product), the quantity int
\* reads from it, the day strptime reads from it (<<>>: rejected)
ProductTokens ==
  { [text |-> Str("X"), val |-> 1], [text |-> Str(" Y "), val |-> 2],
    [text |-> Str("Z"), val |-> 0] }

QtyTokens ==
  { [text |-> Str("3"), val |-> <<FALSE, Str("3")>>],
    [text |-> Str(" 07"), val |-> <<FALSE, Str("7")>>],
    [text |-> Str("x"), val |-> <<>>] }

DateTokens ==
  { [text |-> Str("20230115"), val |-> <<2023, 1, 15>>],
    [text |-> Str("20231301"), val |-> <<>>] }

NameTokens == { Str("An Cz"), Str(" An  Cz ") }

\* the lookups the order extractor is given
OrderCustMap == [k \in {Str("An Cz")} |-> 1]

OrderProductMap == [k \in {Str("X"), Str("Y")} |-> IF k = Str("X") THEN 1 ELSE 2]

\* the non-empty lists of at most MaxItems tokens
TokenLists(tokens) ==
  {l \in SeqsUpTo({t.text : t \in tokens}, MaxItems) : Len(l) > 0}

\* one raw row with the given name and lists
RawRow(name, ps, qs, ds) ==
  Join(<< name, Str("a"), Str("c"), Str("FR"), Str("EU"), Join(ps, <<SEMI>>),
          Str("K"), Str("d"), Str("1.50"), Join(qs, <<SEMI>>),
          Join(ds, <<SEMI>>) >>, <<TAB>>)

OrderFiles ==
  { <<Header, RawRow(n, ps, qs, ds)>> :
      n \in NameTokens, ps \in TokenLists(ProductTokens),
      qs \in TokenLists(QtyTokens), ds \in TokenLists(DateTokens) }

\* most tokens of a customer name field
MaxTokens == 3

\* the tokens of a customer name, the whitespace before, between and after
\* them
NameWords == { Str("Jean"), Str("Paul") }

WordLists == {l \in SeqsUpTo(NameWords, MaxTokens) : Len(l) > 0}

Gaps == { Str(" "), Str("  ") }

Margins == { <<>>, Str(" ") }

\* the name field made of the words toks
NameField(toks, lead, gap, trail) == lead \o Join(toks, gap) \o trail

\* a file of one raw row with the name field name
NameFiles ==
  { << Header, Join(<< NameField(toks, lead, gap, trail), Str("a"), Str("c"),
                       Str("FR"), Str("EU") >>, <<TAB>>) >> :
      toks \in WordLists, lead \in Margins, gap \in Gaps, trail \in Margins }

\* the country lookup the customer extractors are given
NameCountryMap == [k \in {Str("FR")} |-> 1]

\* raw lines that differ in their number of fields: one full line, and a
\* second line cut after its first k fields, k = 4..11
FullLine == Str("An Cz\ta\tc\tFR\tEU\tX\tK\td\t1.50\t3\t20230115")

CutLine == Str("Bo Di\tb\te\tDE\tAS\tY;X\tM;K\te;d\t2;1.50\t4;5\t20230102;20230103")

FirstFields(l, k) == Join(SubSeq(Split(l, TAB), 1, k), <<TAB>>)

\* raw lines with blanks around their fields, and with blank or empty
\* fields
BlankLines ==
  { Str(" An  Cz \t a \t c \t FR \t EU \t X ; Y\t K ; \t d ; e \t 1.50 ;2\t3;4\t20230115;20230116"),
    Str(" \ta\tc\tFR\tEU\t ;X\tK;M\td;e\t1;2\t1;2\t20230101;20230102"),
    Str("Bo\tb\tc\t \tEU\tX\t \td\t1\t1\t20230101"),
    Str("Bo\t\t\tDE\t \tX\tK\td\t1\t1\t20230101") }

FieldLines ==
  {FullLine} \cup {FirstFields(CutLine, k) : k \in 4..11} \cup BlankLines

FieldFiles == {<<>>} \cup {<<Header>> \o d : d \in SeqsUpTo(FieldLines, MaxRows)}

\* stores a run can find: no table; the six tables populated by an earlier
\* run; the same without any REFERENCES declared; Region and Country only
PopulatedRows ==
  [t \in TableNames |->
     CASE t = "region" -> << <<Str("EU")>> >>
       [] t = "country" -> << <<Str("FR"), 1>> >>
       [] t = "productcategory" -> << <<Str("K"), Str("d")>> >>
       [] t = "product" -> << <<Str("X"), <<15, 1>>, 1>> >>
       [] t = "customer" -> << <<Str("An"), Str("Cz"), Str("a"), Str("c"), 1>> >>
       [] t = "orderdetail" -> << <<1, 1, <<2023, 1, 15>>, <<FALSE, Str("3")>> >> >>]

PriorStores ==
  { EmptyStore,
    [tables |-> TableNames, rows |-> NoRows, fks |-> SchemaFKs],
    [tables |-> TableNames, rows |-> PopulatedRows, fks |-> SchemaFKs],
    [tables |-> TableNames, rows |-> PopulatedRows, fks |-> {}],
    [tables |-> {"region", "country"},
     rows |-> [t \in TableNames |->
                 IF t \in {"region", "country"} THEN PopulatedRows[t] ELSE <<>>],
     fks |-> {<<"country", "region">>}] }

(***************************************************************************)
(* The loaders as a state machine: populate_db.main, statement by          *)
(* statement, or the step functions of mini_project2                       *)
(***************************************************************************)
VARIABLES
  file,         \* the content of DATA_FILE
  pc,           \* [stage, step]: the statement main executes next
  err,          \* why the run failed: "none"; main: "connect", "store",
                \* "file", "data"; a step function: "notable", "raise"
  conn,         \* "none", "open", "closed": the connection and its cursor
  db,           \* the committed content of the store
  tx,           \* the store as the open transaction sees it
  rows,         \* the batch of the current stage
  region_map, country_map, cat_map, product_map, cust_map,
  built,        \* the stages whose lookup has been built
  run,          \* number of the current run over the same file
  prev,         \* the tables the previous run left
  called,       \* mini_project2: the step functions that have returned
  fk,           \* mini_project2: PRAGMA foreign_keys of the last connection
  printed,      \* mini_project2: the statements whose Error the last
                \* create_table printed: "drop", "create"
  logged_in,    \* streamlit_app: st.session_state.get("logged_in"):
                \* "None", "True", "False"
  history,      \* streamlit_app: st.session_state.history
  generated_sql,     \* streamlit_app: st.session_state.generated_sql
  full_ai_response,  \* streamlit_app: st.session_state.full_ai_response
  cache,        \* streamlit_app: the entries of st.cache_data
  clock,        \* seconds since the app started
  dbver,        \* the version of the database content
  view          \* streamlit_app: what the last script run did and showed

maps == << region_map, country_map, cat_map, product_map, cust_map >>

hist == << run, prev >>

mini == << called, fk, printed >>

app == << logged_in, history, generated_sql, full_ai_response, cache, clock,
         dbver, view >>

vars == << file, pc, err, conn, db, tx, rows, maps, built, hist, mini, app >>

\* most runs of the pipeline over one file, each on a fresh store
MaxRuns == 2

At(stage, step) == pc = [stage |-> stage, step |-> step]

Goto(stage, step) == pc' = [stage |-> stage, step |-> step]

NoMap == <<>>

\* the result run_query returns when it has no SQL or the query fails
None == [ok |-> FALSE, sql |-> <<>>, ver |-> 0]

\* no script run yet
NoView ==
  [screen |-> "none", auth |-> FALSE, calls |-> {}, buttons |-> {},
   clicked |-> "none", typed |-> <<>>, returned |-> None, live |-> None, recent |-> <<>>]

\* a session of streamlit_app before its first script run
AppInit ==
  /\ logged_in = "None"
  /\ history = <<>>
  /\ generated_sql = <<>>
  /\ full_ai_response = <<>>
  /\ cache = {}
  /\ clock = 0
  /\ dbver = 0
  /\ view = NoView

Init ==
  /\ file \in Files
  /\ pc \in {[stage |-> "init", step |-> "connect"],
            [stage |-> "mini", step |-> "idle"]}
  /\ err = "none"
  /\ conn = "none"
  /\ db = EmptyStore
  /\ tx = EmptyStore
  /\ rows = <<>>
  /\ region_map = NoMap /\ country_map = NoMap /\ cat_map = NoMap
  /\ product_map = NoMap /\ cust_map = NoMap
  /\ built = {}
  /\ run = 1
  /\ prev = NoRows
  /\ called = {}
  /\ fk = TRUE
  /\ printed = {}
  /\ AppInit

\* an exception leaves main: nothing closes the connection, the server
\* rolls the open transaction back
Raise(why, open) ==
  /\ pc' = [stage |-> pc.stage, step |-> "failed"]
  /\ err' = why
  /\ db' = Rollback(db, open)
  /\ tx' = db'

\* psycopg2.connect(db_url); conn.cursor()
Connect ==
  /\ At("init", "connect")
  /\ conn' = "open"
  /\ tx' = db
  /\ Goto("schema", "execute")
  /\ UNCHANGED << file, err, db, rows, built, maps, hist, mini, app >>

\* psycopg2.connect raises: the store is unreachable
ConnectFails ==
  /\ At("init", "connect")
  /\ Raise("connect", tx)
  /\ UNCHANGED << file, conn, rows, built, maps, hist, mini, app >>

\* cur.execute(DDL_SQL)
ExecuteDDL ==
  /\ At("schema", "execute")
  /\ IF DDLRejected(tx) = {}
     THEN /\ tx' = DDL_SQL(tx)
          /\ Goto("schema", "commit")
          /\ UNCHANGED << err, db >>
     ELSE Raise("schema", DDLPrefix(tx, MinOf(DDLRejected(tx)) - 1))
  /\ UNCHANGED << file, conn, rows, built, maps, hist, mini, app >>

\* cur.execute(DDL_SQL) raises at its k-th statement for a reason outside
\* the script (server error, lock timeout, lost connection): the first k-1
\* statements have run in the open transaction
SchemaFault ==
  /\ At("schema", "execute")
  /\ \E k \in 1..Len(DDLStatements) : Raise("store", DDLPrefix(tx, k - 1))
  /\ UNCHANGED << file, conn, rows, built, maps, hist, mini, app >>

\* a faulty NextOfCommit: the region lookup is not rebuilt
NextOfCommitNoLookup(stage) ==
  CASE stage = "schema" -> [stage |-> "region", step |-> "extract"]
    [] stage = "region" -> [stage |-> "country", step |-> "extract"]
    [] stage = "orderdetail" -> [stage |-> "end", step |-> "close"]
    [] OTHER -> [stage |-> stage, step |-> "lookup"]

\* conn.commit() after the DDL and after each batch
NextOfCommit(stage) ==
  CASE stage = "schema" -> [stage |-> "region", step |-> "extract"]
    [] stage = "orderdetail" -> [stage |-> "end", step |-> "close"]
    [] OTHER -> [stage |-> stage, step |-> "lookup"]

Commit ==
  /\ pc.step = "commit"
  /\ db' = tx
  /\ pc' = NextOfCommit(pc.stage)
  /\ UNCHANGED << file, err, conn, tx, rows, built, maps, hist, mini, app >>

\* extras.execute_batch(cur, "INSERT INTO <stage table> ...", rows)
Insert ==
  /\ pc.step = "insert"
  /\ IF Accepts(tx, pc.stage, rows)
     THEN /\ tx' = InsertInto(tx, pc.stage, rows)
          /\ Goto(pc.stage, "commit")
          /\ UNCHANGED << err, db >>
     ELSE \* the rows before the first one the server rejects are in the
          \* open transaction when execute_batch raises
          LET bad == {k \in 1..Len(rows) : ~Accepts(tx, pc.stage, <<rows[k]>>)}
              n == IF bad = {} THEN 0 ELSE MinOf(bad) - 1
          IN  Raise("data", IF pc.stage \in tx.tables
                            THEN InsertInto(tx, pc.stage, SubSeq(rows, 1, n))
                            ELSE tx)
  /\ UNCHANGED << file, conn, rows, built, maps, hist, mini, app >>

\* regions = parse_regions(DATA_FILE); the first reader to open the file
ExtractRegion ==
  /\ At("region", "extract")
  /\ IF Len(file) = 0
     THEN Raise("file", tx) /\ rows' = rows
     ELSE /\ \E regions \in parse_regions(file) :
               rows' = [i \in 1..Len(regions) |-> <<regions[i]>>]
          /\ Goto("region", "insert")
          /\ UNCHANGED << err, tx, db >>
  /\ UNCHANGED << file, conn, built, maps, hist, mini, app >>

\* region_map
LookupRegion ==
  /\ At("region", "lookup")
  /\ region_map' = NameMap(tx, "region")
  /\ built' = built \cup {"region"}
  /\ Goto("country", "extract")
  /\ UNCHANGED << file, err, conn, db, tx, rows, country_map, cat_map,
                  product_map, cust_map, hist, mini, app >>

\* country_pairs = parse_countries(DATA_FILE); country_rows
ExtractCountry ==
  /\ At("country", "extract")
  /\ \E country_pairs \in parse_countries(file) :
       rows' = CountryRows(country_pairs, region_map)
  /\ Goto("country", "insert")
  /\ UNCHANGED << file, err, conn, db, tx, built, maps, hist, mini, app >>

\* country_map
LookupCountry ==
  /\ At("country", "lookup")
  /\ country_map' = NameMap(tx, "country")
  /\ built' = built \cup {"country"}
  /\ Goto("productcategory", "extract")
  /\ UNCHANGED << file, err, conn, db, tx, rows, region_map, cat_map,
                  product_map, cust_map, hist, mini, app >>

\* categories = parse_productcategories(DATA_FILE)
ExtractCategory ==
  /\ At("productcategory", "extract")
  /\ \E categories \in parse_productcategories(file) : rows' = categories
  /\ Goto("productcategory", "insert")
  /\ UNCHANGED << file, err, conn, db, tx, built, maps, hist, mini, app >>

\* cat_map
LookupCategory ==
  /\ At("productcategory", "lookup")
  /\ cat_map' = NameMap(tx, "productcategory")
  /\ built' = built \cup {"productcategory"}
  /\ Goto("product", "extract")
  /\ UNCHANGED << file, err, conn, db, tx, rows, region_map, country_map,
                  product_map, cust_map, hist, mini, app >>

\* products_raw = parse_products(DATA_FILE); product_rows
ExtractProduct ==
  /\ At("product", "extract")
  /\ \E products_raw \in parse_products(file) :
       rows' = ProductRows(products_raw, cat_map)
  /\ Goto("product", "insert")
  /\ UNCHANGED << file, err, conn, db, tx, built, maps, hist, mini, app >>

\* product_map
LookupProduct ==
  /\ At("product", "lookup")
  /\ product_map' = NameMap(tx, "product")
  /\ built' = built \cup {"product"}
  /\ Goto("customer", "extract")
  /\ UNCHANGED << file, err, conn, db, tx, rows, region_map, country_map,
                  cat_map, cust_map, hist, mini, app >>

\* customers_raw = parse_customers(DATA_FILE, set(country_map.keys()));
\* customer_rows
ExtractCustomer ==
  /\ At("customer", "extract")
  /\ \E customers_raw \in parse_customers(file, DOMAIN country_map) :
       rows' = CustomerRows(customers_raw, country_map)
  /\ Goto("customer", "insert")
  /\ UNCHANGED << file, err, conn, db, tx, built, maps, hist, mini, app >>

\* cust_map
LookupCustomer ==
  /\ At("customer", "lookup")
  /\ cust_map' = CustMap(tx)
  /\ built' = built \cup {"customer"}
  /\ Goto("orderdetail", "extract")
  /\ UNCHANGED << file, err, conn, db, tx, rows, region_map, country_map,
                  cat_map, product_map, hist, mini, app >>

\* orders = parse_orders(DATA_FILE, cust_map, product_map)
ExtractOrders ==
  /\ At("orderdetail", "extract")
  /\ rows' = parse_orders(file, cust_map, product_map)
  /\ Goto("orderdetail", "insert")
  /\ UNCHANGED << file, err, conn, db, tx, built, maps, hist, mini, app >>

\* cur.close(); conn.close()
Close ==
  /\ At("end", "close")
  /\ conn' = "closed"
  /\ Goto("end", "done")
  /\ UNCHANGED << file, err, db, tx, rows, built, maps, hist, mini, app >>

\* a statement sent to the store fails (connection lost, server error):
\* the exception leaves main
StoreSteps == {"insert", "commit", "lookup"}

\* an execute_batch that fails has sent the first n rows of the batch; a
\* conn.commit() that fails (connection lost) may have been carried out by
\* the server before the error reached the client
StoreFault ==
  /\ pc.step \in StoreSteps
  /\ \/ \E n \in 0..Len(rows) :
          Raise("store", IF pc.step = "insert"
                         THEN InsertInto(tx, pc.stage, SubSeq(rows, 1, n))
                         ELSE tx)
     \/ /\ pc.step = "commit"
        /\ pc' = [stage |-> pc.stage, step |-> "failed"]
        /\ err' = "store"
        /\ db' = tx
        /\ tx' = tx
  /\ UNCHANGED << file, conn, rows, built, maps, hist, mini, app >>

\* the operator runs main again over the unchanged file on a fresh store
Rerun ==
  /\ At("end", "done")
  /\ run < MaxRuns
  /\ run' = run + 1
  /\ prev' = db.rows
  /\ db' = EmptyStore /\ tx' = EmptyStore
  /\ conn' = "none"
  /\ rows' = <<>>
  /\ region_map' = NoMap /\ country_map' = NoMap /\ cat_map' = NoMap
  /\ product_map' = NoMap /\ cust_map' = NoMap
  /\ built' = {}
  /\ Goto("init", "connect")
  /\ UNCHANGED << file, err, mini, app >>

(***************************************************************************)
(* mini_project2: a caller invokes each step function at most once, in any *)
(* order.  A dictionary function (step2, 4, 6, 8, 10) raises              *)
(* OperationalError when its table does not exist.                         *)
(***************************************************************************)
\* an exception leaves the step function named step: conn.close() is
\* not reached
MiniRaise(step, why) ==
  /\ pc' = [stage |-> step, step |-> "failed"]
  /\ err' = why
  /\ conn' = "open"
  /\ called' = called

\* the step function named step loads table t: needs lists the tables its
\* dictionaries read, res is the [raises, out] of reading the file.  The
\* DROP and the CREATE of create_table may raise sqlite3.Error, which
\* create_table prints; executemany raises when the table is missing.
MiniStep(step, t, needs, res) ==
  /\ At("mini", "idle")
  /\ step \notin called
  /\ IF ~(needs \subseteq db.tables)
     THEN MiniRaise(step, "notable") /\ UNCHANGED << db, fk, printed >>
     ELSE \E dropRaises, createRaises \in BOOLEAN :
       LET made == create_table_raising(db, t, dropRaises, createRaises)
       IN  /\ fk' = made.fk
           /\ printed' = made.printed
           /\ IF res.raises
              THEN MiniRaise(step, "raise") /\ db' = made.store
              ELSE IF t \notin made.store.tables
              THEN MiniRaise(step, "notable") /\ db' = made.store
              ELSE /\ \E batch \in res.out : db' = InsertInto(made.store, t, batch)
                   /\ called' = called \cup {step}
                   /\ conn' = "closed"
                   /\ UNCHANGED << pc, err >>
  /\ tx' = db'
  /\ UNCHANGED << file, rows, built, maps, hist, app >>

Step1 == MiniStep("step1", "region", {}, step1(file))

Step3 ==
  MiniStep("step3", "country", {"region"}, step3(file, NameMap(db, "region")))

Step5 ==
  MiniStep("step5", "customer", {"country"}, step5(file, NameMap(db, "country")))

Step7 == MiniStep("step7", "productcategory", {}, step7(file))

Step9 ==
  MiniStep("step9", "product", {"productcategory"},
           step9(file, NameMap(db, "productcategory")))

Step11 ==
  MiniStep("step11", "orderdetail", {"customer", "product"},
           step11(file, step6_dictionary(db), NameMap(db, "product")))

Next ==
  \/ Connect \/ ConnectFails \/ ExecuteDDL \/ SchemaFault \/ Commit \/ Insert
  \/ ExtractRegion \/ LookupRegion
  \/ ExtractCountry \/ LookupCountry
  \/ ExtractCategory \/ LookupCategory
  \/ ExtractProduct \/ LookupProduct
  \/ ExtractCustomer \/ LookupCustomer
  \/ ExtractOrders
  \/ Close \/ StoreFault \/ Rerun
  \/ Step1 \/ Step3 \/ Step5 \/ Step7 \/ Step9 \/ Step11

Spec == Init /\ [][Next]_vars

\* the statements main can stand at
MainPcs ==
  {[stage |-> g, step |-> t] :
     g \in {"init", "schema", "region", "country", "productcategory", "product",
            "customer", "orderdetail", "end"},
     t \in {"connect", "execute", "extract", "insert", "commit", "lookup",
            "close", "done", "failed"}}

\* main is sequential code: control does not rest at a statement, the
\* statement is executed and control moves on, or an exception ends the run
MainAdvance ==
  /\ pc.stage # "mini" /\ pc.step \notin {"done", "failed"}
  /\ pc' \in MainPcs /\ pc' # pc

FairSpec == Init /\ [][Next]_vars /\ WF_pc(MainAdvance)

\* the order extractors applied to one raw row with given lookups
InitOrders ==
  /\ file \in OrderFiles
  /\ pc = [stage |-> "orders", step |-> "input"]
  /\ err = "none"
  /\ conn = "none"
  /\ db = EmptyStore
  /\ tx = EmptyStore
  /\ rows = <<>>
  /\ region_map = NoMap /\ country_map = NoMap /\ cat_map = NoMap
  /\ product_map = OrderProductMap /\ cust_map = OrderCustMap
  /\ built = {}
  /\ run = 1
  /\ prev = NoRows
  /\ called = {}
  /\ fk = TRUE
  /\ printed = {}
  /\ AppInit

\* orders = parse_orders(DATA_FILE, cust_map, product_map)
CallParseOrders ==
  /\ At("orders", "input")
  /\ rows' = parse_orders(file, cust_map, product_map)
  /\ Goto("orders", "parse_orders")
  /\ UNCHANGED << file, err, conn, db, tx, built, maps, hist, mini, app >>

\* the loop of step11_create_orderdetail_table over the file
CallStep11 ==
  /\ At("orders", "input")
  /\ LET r == step11_orders(file, cust_map, product_map)
     IN  IF r.raises
         THEN /\ err' = "raise"
              /\ Goto("orders", "failed")
              /\ rows' = rows
         ELSE /\ rows' = r.out
              /\ Goto("orders", "step11")
              /\ err' = err
  /\ UNCHANGED << file, conn, db, tx, built, maps, hist, mini, app >>

NextOrders == CallParseOrders \/ CallStep11

SpecOrders == InitOrders /\ [][NextOrders]_vars

\* the customer extractors applied to one raw row with a given country
\* lookup
InitNames ==
  /\ file \in NameFiles
  /\ pc = [stage |-> "names", step |-> "input"]
  /\ err = "none"
  /\ conn = "none"
  /\ db = EmptyStore
  /\ tx = EmptyStore
  /\ rows = <<>>
  /\ region_map = NoMap /\ cat_map = NoMap
  /\ product_map = NoMap /\ cust_map = NoMap
  /\ country_map = NameCountryMap
  /\ built = {}
  /\ run = 1
  /\ prev = NoRows
  /\ called = {}
  /\ fk = TRUE
  /\ printed = {}
  /\ AppInit

\* customers_raw = parse_customers(DATA_FILE, set(country_map.keys()))
CallParseCustomers ==
  /\ At("names", "input")
  /\ \E r \in parse_customers(file, DOMAIN country_map) : rows' = r
  /\ Goto("names", "parse_customers")
  /\ UNCHANGED << file, err, conn, db, tx, built, maps, hist, mini, app >>

\* the rows step5_create_customer_table hands to executemany
CallStep5 ==
  /\ At("names", "input")
  /\ LET r == step5(file, country_map)
     IN  IF r.raises
         THEN /\ err' = "raise"
              /\ Goto("names", "failed")
              /\ rows' = rows
         ELSE /\ \E b \in r.out : rows' = b
              /\ Goto("names", "step5")
              /\ err' = err
  /\ UNCHANGED << file, conn, db, tx, built, maps, hist, mini, app >>

NextNames == CallParseCustomers \/ CallStep5

SpecNames == InitNames /\ [][NextNames]_vars

\* the loaders over files whose lines differ in their number of fields
InitFields ==
  /\ file \in FieldFiles
  /\ pc \in {[stage |-> "init", step |-> "connect"],
            [stage |-> "mini", step |-> "idle"]}
  /\ err = "none"
  /\ conn = "none"
  /\ db = EmptyStore
  /\ tx = EmptyStore
  /\ rows = <<>>
  /\ region_map = NoMap /\ country_map = NoMap /\ cat_map = NoMap
  /\ product_map = NoMap /\ cust_map = NoMap
  /\ built = {}
  /\ run = 1
  /\ prev = NoRows
  /\ called = {}
  /\ fk = TRUE
  /\ printed = {}
  /\ AppInit

SpecFields == InitFields /\ [][Next]_vars

\* the loaders started on a store that an earlier use has left
InitSchema ==
  /\ file \in {f \in Files : Len(f) <= 2}
  /\ pc \in {[stage |-> "init", step |-> "connect"],
            [stage |-> "mini", step |-> "idle"]}
  /\ err = "none"
  /\ conn = "none"
  /\ db \in PriorStores
  /\ tx = db
  /\ rows = <<>>
  /\ region_map = NoMap /\ country_map = NoMap /\ cat_map = NoMap
  /\ product_map = NoMap /\ cust_map = NoMap
  /\ built = {}
  /\ run = 1
  /\ prev = NoRows
  /\ called = {}
  /\ fk = TRUE
  /\ printed = {}
  /\ AppInit

SpecSchema == InitSchema /\ [][Next]_vars

\* the two loaders run one after the other over the same file: main first,
\* then, on a fresh store, the step functions in the order step1, step3,
\* step7, step9, step5, step11; prev keeps the tables main has left
Handover ==
  /\ At("end", "done")
  /\ prev' = db.rows
  /\ db' = EmptyStore /\ tx' = EmptyStore
  /\ conn' = "none"
  /\ Goto("mini", "idle")
  /\ UNCHANGED << file, err, rows, built, maps, run, mini, app >>

StepOrder == <<"step1", "step3", "step7", "step9", "step5", "step11">>

StepInOrder ==
  \E k \in 1..Len(StepOrder) :
    /\ called = {StepOrder[j] : j \in 1..(k - 1)}
    /\ CASE k = 1 -> Step1
         [] k = 2 -> Step3
         [] k = 3 -> Step7
         [] k = 4 -> Step9
         [] k = 5 -> Step5
         [] k = 6 -> Step11

InitBoth == Init /\ At("init", "connect")

NextBoth ==
  \/ Connect \/ ExecuteDDL \/ Commit \/ Insert
  \/ ExtractRegion \/ LookupRegion
  \/ ExtractCountry \/ LookupCountry
  \/ ExtractCategory \/ LookupCategory
  \/ ExtractProduct \/ LookupProduct
  \/ ExtractCustomer \/ LookupCustomer
  \/ ExtractOrders
  \/ Close \/ Handover \/ StepInOrder

SpecBoth == InitBoth /\ [][NextBoth]_vars

(***************************************************************************)
(* streamlit_app: text functions                                           *)
(***************************************************************************)
UpperCase == Str("ABCDEFGHIJKLMNOPQRSTUVWXYZ")

LowerCase == Str("abcdefghijklmnopqrstuvwxyz")

\* re.IGNORECASE: the lower-case form of a character
Lower(c) ==
  IF \E k \in 1..Len(UpperCase) : UpperCase[k] = c
  THEN LowerCase[CHOOSE k \in 1..Len(UpperCase) : UpperCase[k] = c]
  ELSE c

\* \w of a regular expression
IsWordChar(c) ==
  \/ \E k \in 1..Len(LowerCase) : LowerCase[k] = Lower(c)
  \/ c \in Digits
  \/ c = <<"_">>[1]

\* the lower-case pattern pat matches s at position i, ignoring case
MatchAt(s, pat, i) ==
  /\ i >= 1 /\ i + Len(pat) - 1 <= Len(s)
  /\ \A k \in 1..Len(pat) : Lower(s[i + k - 1]) = pat[k]

\* \b(select|with)\b matches s at position i: the length of the keyword
\* matched there, 0 when there is none
KeywordAt(s, i) ==
  LET bounded(n) ==
        /\ (i = 1 \/ ~IsWordChar(s[i - 1]))
        /\ (i + n > Len(s) \/ ~IsWordChar(s[i + n]))
  IN  IF MatchAt(s, Str("select"), i) /\ bounded(6) THEN 6
      ELSE IF MatchAt(s, Str("with"), i) /\ bounded(4) THEN 4
      ELSE 0

\* the character ` (a TLA+ string cannot hold it: "#" stands for it)
BACKTICK == "#"

\* the fence of a code block and the opening fence of an SQL block
Fence == <<BACKTICK, BACKTICK, BACKTICK>>

FenceSql == Fence \o Str("sql")

\* re.search of an opening SQL fence, \s*, a lazy group (.*?) and a closing
\* fence in text, with IGNORECASE and DOTALL: whether it
\* matches, and group(1) of the leftmost match
FenceGroup(text) ==
  LET opens == {i \in 1..Len(text) :
                  /\ MatchAt(text, FenceSql, i)
                  /\ \E q \in (i + 6)..Len(text) : MatchAt(text, Fence, q)}
  IN  IF opens = {} THEN [found |-> FALSE, group |-> <<>>]
      ELSE LET i == MinOf(opens)
               \* \s* is greedy: the first position that is not whitespace
               b == MinOf({k \in (i + 6)..(Len(text) + 1) :
                             k > Len(text) \/ ~IsWS(text[k])})
               \* .*? is lazy: up to the first closing fence
               q == MinOf({k \in b..Len(text) : MatchAt(text, Fence, k)})
           IN  [found |-> TRUE, group |-> SubSeq(text, b, q - 1)]

\* s begins with the keyword SELECT or WITH, in any case
BeginsWithKeyword(s) == MatchAt(s, Str("select"), 1) \/ MatchAt(s, Str("with"), 1)

\* if ";" in s: s = s.split(";", 1)[0]
CutAtSemicolon(s) ==
  IF \E k \in 1..Len(s) : s[k] = SEMI THEN Split(s, SEMI)[1] ELSE s

\* extract_sql_from_response(text)
extract_sql_from_response(text) ==
  LET fence_match == FenceGroup(text)
  IN  IF fence_match.found
      THEN Strip(CutAtSemicolon(Strip(fence_match.group)))
      ELSE LET cleaned == Strip(text)
               starts == {i \in 1..Len(cleaned) : KeywordAt(cleaned, i) > 0}
               from == IF starts = {} THEN cleaned
                       ELSE SubSeq(cleaned, MinOf(starts), Len(cleaned))
           IN  Strip(CutAtSemicolon(from))

\* sql.splitlines()
SplitLines(s) ==
  IF s = <<>> THEN <<>>
  ELSE LET p == Split(s, NL)
       IN  IF p[Len(p)] = <<>> THEN SubSeq(p, 1, Len(p) - 1) ELSE p

\* _strip_sql_comments(sql): the lines that do not start with --
strip_sql_comments(sql) ==
  LET lines == SplitLines(sql)
      kept == {k \in 1..Len(lines) :
                 ~MatchAt(Strip(lines[k]), Str("--"), 1)}
  IN  Join([n \in 1..Cardinality(kept) |-> lines[Nth(kept, n)]], <<NL>>)

\* the replies of the language model: up to MaxPieces pieces in a row
MaxPieces == 3

Pieces ==
  { FenceSql, Fence, Str("SELECT"), Str("with"), Str(" x"),
    Str(";"), Str("\n"), Str("DROP"), Str("s") }

RECURSIVE Concat(_)
Concat(q) == IF q = <<>> THEN <<>> ELSE Head(q) \o Concat(Tail(q))

ReplyTexts == {Concat(q) : q \in SeqsUpTo(Pieces, MaxPieces)}

LoaderIdle(stage) ==
  /\ file = <<>>
  /\ pc = [stage |-> stage, step |-> "input"]
  /\ err = "none"
  /\ conn = "none"
  /\ db = EmptyStore
  /\ tx = EmptyStore
  /\ rows = <<>>
  /\ region_map = NoMap /\ country_map = NoMap /\ cat_map = NoMap
  /\ product_map = NoMap /\ cust_map = NoMap
  /\ built = {}
  /\ run = 1
  /\ prev = NoRows
  /\ called = {}
  /\ fk = TRUE
  /\ printed = {}

loader == << file, err, conn, db, tx, rows, maps, built, hist, mini >>

\* extract_sql_from_response applied to one reply of the language model
InitExtract ==
  /\ LoaderIdle("extract")
  /\ logged_in = "True"
  /\ history = <<>>
  /\ generated_sql = <<>>
  /\ full_ai_response \in ReplyTexts
  /\ cache = {}
  /\ clock = 0
  /\ dbver = 0
  /\ view = NoView

\* sql = extract_sql_from_response(full_text)
CallExtract ==
  /\ At("extract", "input")
  /\ generated_sql' = extract_sql_from_response(full_ai_response)
  /\ Goto("extract", "done")
  /\ UNCHANGED << loader, logged_in, history, full_ai_response, cache, clock,
                  dbver, view >>

SpecExtract == InitExtract /\ [][CallExtract]_vars

(***************************************************************************)
(* streamlit_app: one session.  Every action is a user interaction with   *)
(* the script run (and the st.rerun) it triggers.                          *)
(***************************************************************************)
\* @st.cache_data(ttl=300)
CacheTTL == 300

\* len(cleaned_q) < 10
MinQuestion == 10

\* st.session_state.history[-6:]
RecentShown == 6

\* bcrypt reads the first 72 bytes of a password
BcryptBytes == 72

\* bounds of the session: entries of the history, seconds per tick, last
\* second, versions of the database content
MaxHistory == 7

TickSeconds == 150

MaxClock == 300

MaxVersion == 1

\* bcrypt.hashpw with the salt of HASHED_PASSWORD
hashpw(password) ==
  <<Str("salt"), SubSeq(password, 1, MinOf({Len(password), BcryptBytes}))>>

HASHED_PASSWORD == hashpw(Str("secret"))

\* a faulty checkpw: every password passes
checkpw_any(password, hashed) == TRUE

\* bcrypt.checkpw(password.encode("utf-8"), HASHED_PASSWORD)
checkpw(password, hashed) == hashpw(password) = hashed

Passwords == {<<>>, Str("secret"), Str("guess")}

\* a faulty ensure_logged_in: the script is never stopped
ensure_logged_in_no_stop(flag) == TRUE

\* ensure_logged_in(): TRUE when the script goes on, FALSE when it shows
\* login_screen() and calls st.stop()
ensure_logged_in(flag) == flag = "True"

\* the database executes a SELECT or WITH statement on its content of
\* version ver; anything else makes pd.read_sql raise
Database(sql, ver) ==
  IF BeginsWithKeyword(sql) THEN [ok |-> TRUE, sql |-> sql, ver |-> ver]
  ELSE None

\* the body of run_query(sql, ttl)
run_query(sql, ver) ==
  LET stripped == Strip(strip_sql_comments(sql))
  IN  IF stripped = <<>> THEN None ELSE Database(stripped, ver)

\* the entries of the cache that have not expired
Fresh(c, now) == {e \in c : now < e.at + CacheTTL}

Hits(c, fn, sql, ttl) == {e \in c : e.fn = fn /\ e.sql = sql /\ e.ttl = ttl}

\* @st.cache_data(ttl=300) def run_query(sql, ttl): the entry is keyed by
\* the arguments (sql, ttl); a fresh entry is returned without running the
\* body, otherwise the body runs and its result, None included, is stored
CachedRunQuery(c, sql, ttl, now, ver) ==
  LET hit == Hits(Fresh(c, now), "run_query", sql, ttl)
  IN  IF hit # {}
      THEN [val |-> (CHOOSE e \in hit : TRUE).val, cache |-> Fresh(c, now)]
      ELSE [val |-> run_query(sql, ver),
            cache |-> Fresh(c, now) \cup
                      {[fn |-> "run_query", sql |-> sql, ttl |-> ttl,
                        val |-> run_query(sql, ver), at |-> now]}]

\* @st.cache_data(ttl=300) def run_scalar(sql, ttl): df = run_query(sql,
\* ttl=ttl); df.iloc[0, 0] or None
CachedRunScalar(c, sql, ttl, now, ver) ==
  LET hit == Hits(Fresh(c, now), "run_scalar", sql, ttl)
      df == CachedRunQuery(c, sql, ttl, now, ver)
  IN  IF hit # {}
      THEN [val |-> (CHOOSE e \in hit : TRUE).val, cache |-> Fresh(c, now)]
      ELSE [val |-> df.val,
            cache |-> df.cache \cup
                      {[fn |-> "run_scalar", sql |-> sql, ttl |-> ttl,
                        val |-> df.val, at |-> now]}]

\* the queries of the dashboard, in the order of the calls (first lines)
DashboardCalls ==
  << [fn |-> "run_scalar", sql |-> Str("SELECT COUNT(*) FROM customer;")],
     [fn |-> "run_scalar", sql |-> Str("SELECT COUNT(*) FROM orderdetail;")],
     [fn |-> "run_scalar", sql |-> Str("\n SELECT SUM(p.productunitprice * od.quantityordered)")],
     [fn |-> "run_query", sql |-> Str("\n SELECT r.region, SUM(")],
     [fn |-> "run_query", sql |-> Str("\n SELECT DATE_TRUNC(")],
     [fn |-> "run_query", sql |-> Str("\n SELECT p.productname, SUM(")] >>

\* the cache after the first k calls of the dashboard
RECURSIVE LoadDashboardCalls(_, _, _, _)
LoadDashboardCalls(c, k, now, ver) ==
  IF k = 0 THEN c
  ELSE LET before == LoadDashboardCalls(c, k - 1, now, ver)
           call == DashboardCalls[k]
       IN  IF call.fn = "run_scalar"
           THEN CachedRunScalar(before, call.sql, CacheTTL, now, ver).cache
           ELSE CachedRunQuery(before, call.sql, CacheTTL, now, ver).cache

\* the tables of the selectbox the user previews
PreviewTables == {Str("customer")}

\* what the user types into "Your question:"
Questions == {<<>>, Str("top ten products?")}

\* the replies of the language model: a fenced query, a reply with nothing
\* to extract, and no reply (the API call raises)
Replies ==
  { [ok |-> TRUE, text |-> Str("Count. ") \o FenceSql \o Str("\nSELECT 1;\n") \o Fence],
    [ok |-> TRUE, text |-> Str(";")],
    [ok |-> FALSE, text |-> <<>>] }

\* what the user may put into "Review / modify before running:"
EditedSqls(sql) == {sql, Str("-- SELECT 1")}

\* a faulty panel: history[-6:] without reversed()
RecentOldestFirst(h) ==
  [k \in 1..MinOf({Len(h), RecentShown}) |->
     h[Len(h) - MinOf({Len(h), RecentShown}) + k]]

\* reversed(st.session_state.history[-6:])
Recent(h) ==
  [k \in 1..MinOf({Len(h), RecentShown}) |-> h[Len(h) - k + 1]]

\* what login_screen() shows; clicked and typed are the button and the
\* password of the interaction that led to it
LoginView(clicked, typed) ==
  [screen |-> "login", auth |-> FALSE, calls |-> {}, buttons |-> {"Login"},
   clicked |-> clicked, typed |-> typed, returned |-> None, live |-> None,
   recent |-> <<>>]

\* what main shows after ensure_logged_in(): auth tells whether logged_in
\* was true when the script run started
AppView(auth, clicked, calls, returned, live, sql, h) ==
  [screen |-> "app", auth |-> auth, calls |-> calls,
   buttons |-> {"Logout", "Load Dashboard", "Generate SQL", "Preview"}
               \cup (IF sql # <<>> THEN {"Run Query"} ELSE {}),
   clicked |-> clicked, typed |-> <<>>, returned |-> returned, live |-> live,
   recent |-> Recent(h)]

\* a script run that ends without a call: the first one, or the one that
\* st.rerun() starts after the button clicked was handled
Rendered(flag, clicked, typed, sql, h) ==
  IF ensure_logged_in(flag)
  THEN [AppView(flag = "True", clicked, {}, None, None, sql, h)
          EXCEPT !.typed = typed]
  ELSE LoginView(clicked, typed)

\* the page is opened or a widget changes: the script runs
Refresh ==
  /\ view' = Rendered(logged_in, "none", <<>>, generated_sql, history)
  /\ UNCHANGED << loader, pc, logged_in, history, generated_sql,
                  full_ai_response, cache, clock, dbver >>

\* login_screen(): the Login button is clicked
Login ==
  /\ "Login" \in view.buttons
  /\ \E password \in Passwords :
       IF ensure_logged_in(logged_in)
       THEN /\ view' = Rendered(logged_in, "none", <<>>, generated_sql, history)
            /\ logged_in' = logged_in
       ELSE IF password # <<>> /\ checkpw(password, HASHED_PASSWORD)
       THEN \* st.session_state.logged_in = True; st.rerun()
            /\ logged_in' = "True"
            /\ view' = Rendered("True", "Login", password, generated_sql, history)
       ELSE /\ logged_in' = logged_in
            /\ view' = LoginView("Login", password)
  /\ UNCHANGED << loader, pc, history, generated_sql, full_ai_response, cache,
                  clock, dbver >>

\* main: the Logout button is clicked
Logout ==
  /\ "Logout" \in view.buttons
  /\ IF ensure_logged_in(logged_in)
     THEN \* st.session_state.logged_in = False; st.rerun()
          /\ logged_in' = "False"
          /\ view' = Rendered("False", "Logout", <<>>, generated_sql, history)
     ELSE /\ logged_in' = logged_in
          /\ view' = LoginView("Logout", <<>>)
  /\ UNCHANGED << loader, pc, history, generated_sql, full_ai_response, cache,
                  clock, dbver >>

\* main: Load Dashboard is clicked
LoadDashboard ==
  /\ "Load Dashboard" \in view.buttons
  /\ IF ensure_logged_in(logged_in)
     THEN /\ cache' = LoadDashboardCalls(cache, Len(DashboardCalls), clock, dbver)
          /\ view' = AppView(logged_in = "True", "Load Dashboard",
                             {"run_scalar", "run_query"}, None, None,
                             generated_sql, history)
     ELSE /\ cache' = cache
          /\ view' = LoginView("Load Dashboard", <<>>)
  /\ UNCHANGED << loader, pc, logged_in, history, generated_sql,
                  full_ai_response, clock, dbver >>

\* main: Generate SQL is clicked
GenerateSQL ==
  /\ "Generate SQL" \in view.buttons
  /\ \E question \in Questions, reply \in Replies :
       IF ~ensure_logged_in(logged_in)
       THEN /\ view' = LoginView("Generate SQL", <<>>)
            /\ UNCHANGED << generated_sql, full_ai_response >>
       ELSE IF Len(Strip(question)) < MinQuestion
       THEN /\ view' = AppView(logged_in = "True", "Generate SQL", {}, None,
                               None, generated_sql, history)
            /\ UNCHANGED << generated_sql, full_ai_response >>
       ELSE \* full_text, sql = generate_sql_and_explanation(cleaned_q)
            LET sql == IF reply.ok THEN extract_sql_from_response(reply.text)
                       ELSE <<>>
            IN  /\ IF sql # <<>>
                   THEN /\ generated_sql' = sql
                        /\ full_ai_response' = reply.text
                   ELSE UNCHANGED << generated_sql, full_ai_response >>
                /\ view' = AppView(logged_in = "True", "Generate SQL",
                                   {"generate_sql_and_explanation"}, None, None,
                                   generated_sql', history)
  /\ UNCHANGED << loader, pc, logged_in, history, cache, clock, dbver >>

\* main: Run Query is clicked
RunQuery ==
  /\ "Run Query" \in view.buttons
  /\ Len(history) < MaxHistory
  /\ \E question \in Questions, edited_sql \in EditedSqls(generated_sql) :
       IF ~ensure_logged_in(logged_in)
       THEN /\ view' = LoginView("Run Query", <<>>)
            /\ UNCHANGED << history, cache >>
       ELSE \* df = run_query(edited_sql, ttl=0)
            LET df == CachedRunQuery(cache, edited_sql, 0, clock, dbver)
            IN  /\ cache' = df.cache
                /\ history' = IF df.val.ok
                              THEN Append(history, [q |-> question, sql |-> edited_sql])
                              ELSE history
                /\ view' = AppView(logged_in = "True", "Run Query",
                                   {"run_query"} \cup
                                   (IF df.val.ok THEN {"explain_results"} ELSE {}),
                                   df.val, run_query(edited_sql, dbver),
                                   generated_sql, history')
  /\ UNCHANGED << loader, pc, logged_in, generated_sql, full_ai_response,
                  clock, dbver >>

\* main: Preview 10 rows is clicked
Preview ==
  /\ "Preview" \in view.buttons
  /\ \E table \in PreviewTables :
       IF ~ensure_logged_in(logged_in)
       THEN /\ view' = LoginView("Preview", <<>>)
            /\ cache' = cache
       ELSE /\ cache' = CachedRunQuery(cache,
                          Str("SELECT * FROM ") \o table \o Str(" LIMIT 10;"),
                          CacheTTL, clock, dbver).cache
            /\ view' = AppView(logged_in = "True", "Preview", {"run_query"},
                               None, None, generated_sql, history)
  /\ UNCHANGED << loader, pc, logged_in, history, generated_sql,
                  full_ai_response, clock, dbver >>

\* time passes
Tick ==
  /\ clock + TickSeconds <= MaxClock
  /\ clock' = clock + TickSeconds
  /\ UNCHANGED << loader, pc, logged_in, history, generated_sql,
                  full_ai_response, cache, dbver, view >>

\* a loader changes the content of the database
DbChange ==
  /\ dbver < MaxVersion
  /\ dbver' = dbver + 1
  /\ UNCHANGED << loader, pc, logged_in, history, generated_sql,
                  full_ai_response, cache, clock, view >>

InitSession == LoaderIdle("app") /\ AppInit

NextSession ==
  \/ Refresh \/ Login \/ Logout \/ LoadDashboard \/ GenerateSQL \/ RunQuery
  \/ Preview

SpecSession == InitSession /\ [][NextSession]_vars

\* a logged-in session after Generate SQL got a fenced query, while time
\* passes and the loaders change the database
InitCache ==
  /\ LoaderIdle("app")
  /\ logged_in = "True"
  /\ history = <<>>
  /\ \E reply \in {r \in Replies : r.ok} :
       /\ extract_sql_from_response(reply.text) # <<>>
       /\ generated_sql = extract_sql_from_response(reply.text)
       /\ full_ai_response = reply.text
  /\ cache = {}
  /\ clock = 0
  /\ dbver = 0
  /\ view = AppView(TRUE, "Generate SQL", {"generate_sql_and_explanation"},
                    None, None, generated_sql, history)

NextCache == RunQuery \/ Tick \/ DbChange

SpecCache == InitCache /\ [][NextCache]_vars

(***************************************************************************)
(* Properties                                                              *)
(***************************************************************************)
Done == At("end", "done")

\* the tables that hold entities (all but orderdetail)
EntityTables == {"region", "country", "productcategory", "product", "customer"}

\* the fields of data line i as populate_db reads them
FieldsOf(i) == Parts(DataLines(file)[i])

\* every reference of t's rows (or of a batch for t) is the id of a row of
\* the parent table in store
Resolves(store, t, batch) ==
  \A i \in 1..Len(batch) :
    /\ t = "country" => batch[i][2] \in 1..Len(store.rows["region"])
    /\ t = "product" => batch[i][3] \in 1..Len(store.rows["productcategory"])
    /\ t = "customer" => batch[i][5] \in 1..Len(store.rows["country"])
    /\ t = "orderdetail" => /\ batch[i][1] \in 1..Len(store.rows["customer"])
                            /\ batch[i][2] \in 1..Len(store.rows["product"])

\* C1: after populate_db.main completes there is no orphan foreign key in
\* country, product, customer and orderdetail, and no batch handed to an
\* INSERT holds a child whose parent was not resolved to a stored row.
C1_NoOrphanForeignKeys ==
  /\ Done => \A t \in TableNames : Resolves(db, t, db.rows[t])
  /\ (pc.step = "insert" /\ pc.stage \in TableNames) => Resolves(tx, pc.stage, rows)

\* a completed run that loaded all four child tables and dropped a customer
\* whose country is not in the country lookup
C1_Witness ==
  /\ Done
  /\ \A t \in TableNames : Len(db.rows[t]) > 0
  /\ \E i \in 1..Len(DataLines(file)) :
       /\ Len(FieldsOf(i)) > 4
       /\ Strip(FieldsOf(i)[1]) # <<>>
       /\ Strip(FieldsOf(i)[4]) # <<>>
       /\ Strip(FieldsOf(i)[4]) \notin DOMAIN country_map

\* the natural key of a row of entity table t
NaturalKey(t, row) ==
  IF t = "customer" THEN <<row[1], row[2], row[3], row[4]>> ELSE <<row[1]>>

\* C2: after a run of populate_db.main no two rows of an entity table share
\* the natural key (name; for customer first name, last name, address,
\* city).
C2_UniqueNaturalKeys ==
  Done => \A t \in EntityTables :
            \A i, j \in 1..Len(db.rows[t]) :
              i # j => NaturalKey(t, db.rows[t][i]) # NaturalKey(t, db.rows[t][j])

\* C3: a second run of populate_db.main over the unchanged file on a fresh
\* store leaves the same rows with the same ids as the run before.
C3_IdempotentRebuild ==
  (Done /\ run > 1) => db.rows = prev

\* the key the rows of entity table t are ordered by
OrderKey(t, row) ==
  IF t = "customer" THEN row[1] \o <<SP>> \o row[2] ELSE row[1]

\* C10: in every entity table the surrogate ids increase with the natural
\* key: a row with a smaller id never has the larger key.
C10_IdsFollowNaturalKey ==
  \A t \in EntityTables :
    \A i, j \in 1..Len(db.rows[t]) :
      i < j => StrLeq(OrderKey(t, db.rows[t][i]), OrderKey(t, db.rows[t][j]))

\* a completed run whose first data line holds the customer that got id 2
C10_Witness ==
  /\ Done
  /\ Len(db.rows["customer"]) = 2
  /\ Len(FieldsOf(1)) > 4
  /\ SplitWS(FieldsOf(1)[1]) # <<>>
  /\ db.rows["customer"][2][1] = SplitWS(FieldsOf(1)[1])[1]
  /\ db.rows["customer"][1][1] # db.rows["customer"][2][1]

\* is the run one of the mini_project2 step functions
MiniSteps == {"step1", "step3", "step5", "step7", "step9", "step11"}

IsMini == pc.stage \in MiniSteps \cup {"mini"}

\* the fields of data line i as the running loader reads them, and its
\* country and region fields
LoaderFields(i) ==
  IF IsMini THEN SParts(DataLines(file)[i]) ELSE FieldsOf(i)

CountryField(i) ==
  IF IsMini THEN LoaderFields(i)[4] ELSE Strip(LoaderFields(i)[4])

RegionField(i) ==
  IF IsMini THEN LoaderFields(i)[5] ELSE Strip(LoaderFields(i)[5])

\* line i has a country and a region, and no other line has its region
LoneRegion(i) ==
  /\ Len(LoaderFields(i)) > 4
  /\ CountryField(i) # <<>>
  /\ RegionField(i) # <<>>
  /\ \A j \in 1..Len(DataLines(file)) :
       (j # i /\ Len(LoaderFields(j)) > 4) => RegionField(j) # RegionField(i)

\* the store holds a Country row with line i's country that references
\* the Region row of line i's region
LineCountryRow(i) ==
  \E k \in 1..Len(db.rows["country"]) :
    /\ db.rows["country"][k][1] = CountryField(i)
    /\ db.rows["country"][k][2] \in 1..Len(db.rows["region"])
    /\ db.rows["region"][db.rows["country"][k][2]][1] = RegionField(i)

\* the Region and Country stages have run to their end
CountryLoaded == Done \/ (IsMini /\ "step3" \in called)

ProductPositionValid(i, j) ==
  LET names == Split(FieldsOf(i)[6], SEMI)
      cats == Split(FieldsOf(i)[7], SEMI)
      prices == Split(FieldsOf(i)[9], SEMI)
  IN  /\ j <= Len(names) /\ j <= Len(cats) /\ j <= Len(prices)
      /\ Strip(names[j]) # <<>> /\ Strip(cats[j]) # <<>>
      /\ PyFloat(Strip(prices[j])).ok
      /\ Strip(cats[j]) \in DOMAIN cat_map

\* the product row of a valid position
ProductRowAt(i, j) ==
  << Strip(Split(FieldsOf(i)[6], SEMI)[j]),
     PyFloat(Strip(Split(FieldsOf(i)[9], SEMI)[j])).v,
     cat_map[Strip(Split(FieldsOf(i)[7], SEMI)[j])] >>

\* the customer key of line i as the order stage computes it
OrderCustomer(i) == Strip(Join(SplitWS(FieldsOf(i)[1]), <<SP>>))

\* position j of the order lists of line i is valid: product in
\* product_map, quantity an int, date a calendar day
OrderPositionValid(i, j) ==
  LET names == Split(FieldsOf(i)[6], SEMI)
      qtys == Split(FieldsOf(i)[10], SEMI)
      dates == Split(FieldsOf(i)[11], SEMI)
  IN  /\ j <= Len(names) /\ j <= Len(qtys) /\ j <= Len(dates)
      /\ Strip(names[j]) \in DOMAIN product_map
      /\ PyInt(Strip(qtys[j])).ok
      /\ Strptime(Strip(dates[j])).ok

\* the order row of a valid position
OrderRowAt(i, j) ==
  << cust_map[OrderCustomer(i)],
     product_map[Strip(Split(FieldsOf(i)[6], SEMI)[j])],
     Strptime(Strip(Split(FieldsOf(i)[11], SEMI)[j])).v,
     PyInt(Strip(Split(FieldsOf(i)[10], SEMI)[j])).v >>

InSeq(x, q) == \E k \in 1..Len(q) : q[k] = x

\* the positions of the product-name list of line i
PositionsOf(i) ==
  IF Len(FieldsOf(i)) > 5 THEN 1..Len(Split(FieldsOf(i)[6], SEMI)) ELSE {}

\* C7: in parse_products and parse_orders a failing list position is the
\* only thing dropped: every valid position of every line is in the batch
\* handed to the INSERT and, once the run is done, in the table.
C7_FailingPositionOnlyDropped ==
  /\ (At("product", "insert") \/ Done) =>
       \A i \in 1..Len(DataLines(file)) : \A j \in PositionsOf(i) :
         (Len(FieldsOf(i)) > 8 /\ ProductPositionValid(i, j)) =>
           InSeq(ProductRowAt(i, j), IF Done THEN db.rows["product"] ELSE rows)
  /\ (At("orderdetail", "insert") \/ Done) =>
       \A i \in 1..Len(DataLines(file)) : \A j \in PositionsOf(i) :
         ( /\ Len(FieldsOf(i)) > 10
           /\ OrderCustomer(i) \in DOMAIN cust_map
           /\ OrderPositionValid(i, j) ) =>
           InSeq(OrderRowAt(i, j), IF Done THEN db.rows["orderdetail"] ELSE rows)

\* a completed run over a line whose first and third positions are valid
\* and whose second position fails, for the product and for the order
C7_Witness ==
  /\ Done
  /\ \E i \in 1..Len(DataLines(file)) :
       /\ Len(FieldsOf(i)) > 10
       /\ OrderCustomer(i) \in DOMAIN cust_map
       /\ ProductPositionValid(i, 1) /\ ProductPositionValid(i, 3)
       /\ ~PyFloat(Strip(Split(FieldsOf(i)[9], SEMI)[2])).ok
       /\ OrderPositionValid(i, 1) /\ OrderPositionValid(i, 3)
       /\ ~OrderPositionValid(i, 2)
       /\ InSeq(OrderRowAt(i, 3), db.rows["orderdetail"])

\* C8: on a file with a header and a reachable store, populate_db.main
\* never fails because of the content of a data line.
C8_RowDefectsNeverAbort ==
  (Len(file) > 0 /\ ~IsMini /\ pc.step = "failed") => err \in {"connect", "store"}

\* C9: on a file with a header, a step function of mini_project2 whose
\* tables exist does not raise because of the content of a data line.
C9_StepsNeverRaise ==
  (Len(file) > 0 /\ IsMini) => err # "raise"

\* the lists of the raw row of an order file, as written
RowField(k) == Split(file[2], TAB)[k]

RowList(k) == Split(RowField(k), SEMI)

\* what a token stands for
TokenVal(tokens, text) == (CHOOSE t \in tokens : t.text = text).val

\* the customer of the raw row resolves, its product names all resolve and
\* its quantity and date tokens all parse
AllResolve ==
  /\ \A i \in 1..Len(RowList(6)) : TokenVal(ProductTokens, RowList(6)[i]) # 0
  /\ \A i \in 1..Len(RowList(10)) : TokenVal(QtyTokens, RowList(10)[i]) # <<>>
  /\ \A i \in 1..Len(RowList(11)) : TokenVal(DateTokens, RowList(11)[i]) # <<>>

ShortestList == MinOf({Len(RowList(6)), Len(RowList(10)), Len(RowList(11))})

\* C5: for one raw row whose customer resolves, whose product names all
\* resolve and whose quantity and date tokens all parse, parse_orders and
\* the loop of step11 raise nothing and produce exactly min(#names,
\* #quantities, #dates) rows, the i-th row made of the i-th product name,
\* the i-th quantity and the i-th date.
C5_ShortestListAligned ==
  (AllResolve /\ pc.step # "input") =>
    /\ pc.step # "failed"
    /\ Len(rows) = ShortestList
    /\ \A i \in 1..Len(rows) :
         rows[i] = << 1, TokenVal(ProductTokens, RowList(6)[i]),
                      TokenVal(DateTokens, RowList(11)[i]),
                      TokenVal(QtyTokens, RowList(10)[i]) >>

\* step11 has extracted a row whose lists all resolve and differ in length
C5_Witness ==
  /\ pc.step = "step11" /\ AllResolve
  /\ Len(RowList(6)) > ShortestList /\ Len(RowList(11)) = ShortestList
  /\ Len(rows) = ShortestList /\ Len(rows) > 0

\* the stages of main in the order of the claim
StageOrder ==
  <<"region", "country", "productcategory", "product", "customer", "orderdetail">>

P(stage, step) == [stage |-> stage, step |-> step]

\* the statements of one stage, with or without a lookup rebuild at its end
StageSteps(stage, lookup) ==
  <<P(stage, "extract"), P(stage, "insert"), P(stage, "commit")>>
  \o (IF lookup THEN <<P(stage, "lookup")>> ELSE <<>>)

\* the statements of main in order; lastLookup tells whether the
\* OrderDetail stage ends with a lookup rebuild as the other stages do
MainOrder(lastLookup) ==
  <<P("init", "connect"), P("schema", "execute"), P("schema", "commit")>>
  \o StageSteps(StageOrder[1], TRUE) \o StageSteps(StageOrder[2], TRUE)
  \o StageSteps(StageOrder[3], TRUE) \o StageSteps(StageOrder[4], TRUE)
  \o StageSteps(StageOrder[5], TRUE) \o StageSteps(StageOrder[6], lastLookup)
  \o <<P("end", "close"), P("end", "done")>>

\* a step of main goes to the next statement of order, fails, or starts
\* the next run
FollowsOrder(order) ==
  (pc' # pc /\ ~IsMini) =>
    \/ \E k \in 1..(Len(order) - 1) : pc = order[k] /\ pc' = order[k + 1]
    \/ pc'.step = "failed"
    \/ Done /\ pc' = order[1]

\* the parents of a stage and the lookup built for a stage
ParentsOf(stage) ==
  CASE stage = "country" -> {"region"}
    [] stage = "product" -> {"productcategory"}
    [] stage = "customer" -> {"country"}
    [] stage = "orderdetail" -> {"customer", "product"}
    [] OTHER -> {}

LookupOf(stage) ==
  CASE stage = "region" -> region_map
    [] stage = "country" -> country_map
    [] stage = "productcategory" -> cat_map
    [] stage = "product" -> product_map
    [] stage = "customer" -> cust_map

\* the key under which the lookup of stage files row i of the committed
\* table
OrderKeyOfLookup(stage, i) ==
  IF stage = "customer"
  THEN Strip(db.rows[stage][i][1] \o <<SP>> \o db.rows[stage][i][2])
  ELSE db.rows[stage][i][1]

\* the lookup of stage holds the ids of the committed rows of its table
FromCommitted(stage) ==
  /\ stage \in built
  /\ DOMAIN LookupOf(stage) = {OrderKeyOfLookup(stage, i) : i \in 1..Len(db.rows[stage])}
  /\ \A k \in DOMAIN LookupOf(stage) :
       /\ LookupOf(stage)[k] \in 1..Len(db.rows[stage])
       /\ OrderKeyOfLookup(stage, LookupOf(stage)[k]) = k

\* when a stage starts to extract, the lookups of its parents are built
\* from committed rows
ParentsBuilt ==
  (pc.step = "extract" /\ ~IsMini) =>
    \A p \in ParentsOf(pc.stage) : FromCommitted(p)

\* C4 as stated: every stage, OrderDetail included, is extract, insert,
\* commit, lookup rebuild, in the order schema, Region, Country,
\* ProductCategory, Product, Customer, OrderDetail.
C4_EveryStageRebuildsLookup ==
  /\ [][FollowsOrder(MainOrder(TRUE))]_vars
  /\ []ParentsBuilt
  /\ (At("init", "connect") ~> (Done \/ pc.step = "failed"))

\* C4 amended: the stages run once each in the order schema, Region,
\* Country, ProductCategory, Product, Customer, OrderDetail; the five
\* entity stages are extract, insert, commit, lookup rebuild, the
\* OrderDetail stage is extract, insert, commit (it has no lookup); a child
\* stage extracts only after its parents' lookups were built from
\* committed rows; a run that does not fail reaches the finished state.
C4_StagesInOrder ==
  /\ [][FollowsOrder(MainOrder(FALSE))]_vars
  /\ []ParentsBuilt
  /\ (At("init", "connect") ~> (Done \/ pc.step = "failed"))

\* main stands at the extraction of the OrderDetail stage with both parent
\* lookups non-empty
C4_Witness ==
  /\ At("orderdetail", "extract")
  /\ DOMAIN cust_map # {} /\ DOMAIN product_map # {}
  /\ built = {"region", "country", "productcategory", "product", "customer"}


\* the valid aligned list positions <<line, position>> of the file: the
\* line has more than ten fields, its customer is in cust_map, the position
\* is within the three lists and its product, quantity and date are good
ValidOrderPositions ==
  UNION { { <<i, j>> : j \in {j \in PositionsOf(i) :
                                /\ Len(FieldsOf(i)) > 10
                                /\ OrderCustomer(i) \in DOMAIN cust_map
                                /\ OrderPositionValid(i, j)} } :
          i \in 1..Len(DataLines(file)) }

\* C11: after a run the OrderDetail table has one row per valid aligned
\* list position: as many rows as positions, and each (customer, product,
\* date, quantity) as many times as positions yield it.
C11_OrdersNotDeduplicated ==
  Done =>
    /\ Len(db.rows["orderdetail"]) = Cardinality(ValidOrderPositions)
    /\ \A k \in 1..Len(db.rows["orderdetail"]) :
         Cardinality({m \in 1..Len(db.rows["orderdetail"]) :
                        db.rows["orderdetail"][m] = db.rows["orderdetail"][k]})
         = Cardinality({p \in ValidOrderPositions :
                          OrderRowAt(p[1], p[2]) = db.rows["orderdetail"][k]})

\* a completed run whose OrderDetail table holds the same row twice
C11_Witness ==
  /\ Done
  /\ \E k, m \in 1..Len(db.rows["orderdetail"]) :
       k # m /\ db.rows["orderdetail"][k] = db.rows["orderdetail"][m]


\* C12: for a name field of one or more tokens with any whitespace around
\* and between them, parse_customers and step5 give one customer whose
\* first name is the first token and whose last name is the other tokens
\* joined by single spaces (empty when there is one token).
C12_NameSplitting ==
  pc.step # "input" =>
    \A toks \in WordLists : \A lead \in Margins, gap \in Gaps, trail \in Margins :
      Split(file[2], TAB)[1] = NameField(toks, lead, gap, trail) =>
        /\ pc.step # "failed"
        /\ Len(rows) = 1
        /\ rows[1][1] = toks[1]
        /\ rows[1][2] = (IF Len(toks) = 1 THEN <<>>
                        ELSE IF Len(toks) = 2 THEN toks[2]
                        ELSE Join(Tail(toks), <<SP>>))

\* step5 has split a name of three tokens that are two blanks apart, with a
\* blank before the first
C12_Witness ==
  /\ pc.step = "step5"
  /\ \E toks \in WordLists :
       /\ Len(toks) = 3
       /\ Split(file[2], TAB)[1] = NameField(toks, Str(" "), Str("  "), <<>>)
       /\ Len(rows) = 1 /\ rows[1][1] = toks[1]


\* the number of fields of data line i
FieldCount(i) == Len(FieldsOf(i))

\* line i has its Region, Country and Customer rows in the store (for the
\* fields that are not empty)
HasRegionCountryCustomer(i) ==
  LET f == FieldsOf(i)
  IN  /\ Strip(f[5]) # <<>> => InSeq(<<Strip(f[5])>>, db.rows["region"])
      /\ (Strip(f[4]) # <<>> /\ Strip(f[5]) # <<>>) =>
           \E k \in 1..Len(db.rows["country"]) :
             /\ db.rows["country"][k][1] = Strip(f[4])
             /\ db.rows["region"][db.rows["country"][k][2]][1] = Strip(f[5])
      /\ (Strip(f[1]) # <<>> /\ Strip(f[4]) \in DOMAIN country_map) =>
           \E k \in 1..Len(db.rows["customer"]) :
             /\ Strip(db.rows["customer"][k][1] \o <<SP>> \o db.rows["customer"][k][2])
                  = OrderCustomer(i)
             /\ db.rows["customer"][k][3] = Strip(f[2])
             /\ db.rows["customer"][k][4] = Strip(f[3])
             /\ db.rows["country"][db.rows["customer"][k][5]][1] = Strip(f[4])

\* the (category, description) pairs of line i
CategoriesOf(i) ==
  LET cats == Split(FieldsOf(i)[7], SEMI)
      descs == Split(FieldsOf(i)[8], SEMI)
  IN  {<<Strip(cats[j]), Strip(descs[j])>> :
         j \in {j \in 1..MinOf({Len(cats), Len(descs)}) : Strip(cats[j]) # <<>>}}

\* the product rows of the valid positions of line i
ProductsOf(i) ==
  {ProductRowAt(i, j) : j \in {j \in PositionsOf(i) : ProductPositionValid(i, j)}}

\* the order rows of the valid positions of line i
OrdersOf(i) ==
  IF OrderCustomer(i) \notin DOMAIN cust_map THEN {}
  ELSE {OrderRowAt(i, j) : j \in {j \in PositionsOf(i) : OrderPositionValid(i, j)}}

\* the data lines with more than n fields
LinesOver(n) == {i \in 1..Len(DataLines(file)) : FieldCount(i) > n}

RowsOf(t) == {db.rows[t][k] : k \in 1..Len(db.rows[t])}

\* C13: each extractor filters on its own field count.  After a run a line
\* with 5 or more fields has its Region, Country and Customer; the
\* ProductCategory rows are exactly those of the lines with 8 or more
\* fields, the Product rows those of the lines with 9 or more, the
\* OrderDetail rows those of the lines with 11; and no line length makes
\* main fail.
C13_FieldCountPerExtractor ==
  /\ (Len(file) > 0 /\ ~IsMini /\ pc.step = "failed") => err \in {"connect", "store"}
  /\ Done =>
       /\ \A i \in LinesOver(4) : HasRegionCountryCustomer(i)
       /\ RowsOf("productcategory") = UNION {CategoriesOf(i) : i \in LinesOver(7)}
       /\ RowsOf("product") = UNION {ProductsOf(i) : i \in LinesOver(8)}
       /\ RowsOf("orderdetail") = UNION {OrdersOf(i) : i \in LinesOver(10)}

\* a completed run over a line of 7 fields and a line of 10 fields: the
\* first gave a customer but no category, the second a product but no order
C13_Witness ==
  /\ Done
  /\ Len(DataLines(file)) = 2
  /\ FieldCount(1) = 7 /\ FieldCount(2) = 10
  /\ Len(db.rows["region"]) = 1 /\ Len(db.rows["customer"]) = 1
  /\ Len(db.rows["productcategory"]) = 2 /\ Len(db.rows["product"]) = 2
  /\ Len(db.rows["orderdetail"]) = 0


\* the columns of table t that hold text
TextColumns(t) ==
  CASE t = "productcategory" -> {1, 2}
    [] t = "customer" -> {1, 2, 3, 4}
    [] OTHER -> {1}

\* x has no whitespace at either end
Trimmed(x) == x = <<>> \/ (~IsWS(x[1]) /\ ~IsWS(x[Len(x)]))

\* C14: in the store of populate_db no text field of an entity row has
\* leading or trailing whitespace, and the name of every entity row
\* (region, country, productcategory, productname, firstname) is not empty.
C14_TrimmedNonEmptyNames ==
  ~IsMini =>
    \A t \in EntityTables : \A k \in 1..Len(db.rows[t]) :
      /\ \A c \in TextColumns(t) : Trimmed(db.rows[t][k][c])
      /\ db.rows[t][k][1] # <<>>

\* a completed run over the line whose fields all have blanks around them,
\* and over a line with a blank name and a blank product name
C14_Witness ==
  /\ Done
  /\ Len(DataLines(file)) = 2
  /\ IsWS(file[2][1]) /\ file[2][2] = "A"
  /\ IsWS(file[3][1]) /\ file[3][2] = TAB
  /\ Len(db.rows["customer"]) = 1 /\ Len(db.rows["product"]) = 2
  /\ Len(db.rows["productcategory"]) = 2


\* the six tables, empty, with their REFERENCES declared
SchemaStore == [tables |-> TableNames, rows |-> NoRows, fks |-> SchemaFKs]

\* C15: whatever store the run finds, DDL_SQL is not rejected and leaves
\* exactly the six empty tables with their foreign keys; run again on its
\* own result it leaves the same; main commits that store.  create_table
\* of mini_project2 leaves its table present, empty and with its foreign
\* keys, and repeated it changes nothing more.
C15_SchemaRebuildIdempotent ==
  /\ ~IsMini => err # "schema"
  /\ At("schema", "commit") =>
       /\ tx = SchemaStore
       /\ DDLRejected(tx) = {} /\ DDL_SQL(tx) = tx
  /\ At("region", "extract") => db = SchemaStore
  /\ IsMini =>
       \A t \in TableNames :
         /\ t \in create_table(db, t).tables
         /\ create_table(db, t).rows[t] = <<>>
         /\ \A p \in ParentsOf(t) : <<t, p>> \in create_table(db, t).fks
         /\ create_table(create_table(db, t), t) = create_table(db, t)

\* main has executed DDL_SQL on a store that held the six populated tables
C15_Witness ==
  /\ At("schema", "commit")
  /\ \A t \in TableNames : Len(db.rows[t]) > 0
  /\ tx.tables = TableNames /\ tx.rows = NoRows


\* C16: a DROP TABLE or CREATE TABLE that fails ends the load with the
\* error raised: main stops at the failed cur.execute, and a step function
\* whose create_table met a failing statement does not return normally and
\* inserts nothing.
C16_DDLFailureRaised ==
  /\ (~IsMini /\ err \in {"schema", "store"} /\ pc.stage = "schema")
       => pc.step = "failed"
  /\ (IsMini /\ printed # {}) => pc.step = "failed"


\* C17: when cur.execute(DDL_SQL) of main fails at any statement, the store
\* keeps exactly the tables, rows and foreign keys it had before the run:
\* no statement of the script is committed.
C17_FailedDDLCommitsNothing ==
  [][(At("schema", "execute") /\ pc'.step = "failed")
       => (db' = db /\ tx' = db)]_vars

\* the script has failed on a store that held the six populated tables
C17_Witness ==
  /\ At("schema", "failed")
  /\ err = "store"
  /\ db.tables = TableNames
  /\ \A t \in TableNames : Len(db.rows[t]) > 0


\* C18: on every path out of create_table foreign-key enforcement is on
\* again, so whenever a step function has issued its INSERT and returned,
\* the connection that executed the INSERT had PRAGMA foreign_keys = 1.
C18_InsertsWithForeignKeysOn ==
  [][(IsMini /\ called' # called) => fk']_vars


\* position of a stage in the order of main
StageIndex(stage) == CHOOSE k \in 1..Len(StageOrder) : StageOrder[k] = stage

FailedAtStage ==
  ~IsMini /\ pc.step = "failed" /\ pc.stage \in TableNames

\* C19 as stated: after a fatal failure at stage k the store holds the six
\* tables, and the tables of stage k and of the later stages are empty.
C19_FailedStageTableEmpty ==
  FailedAtStage =>
    /\ db.tables = TableNames
    /\ \A t \in TableNames :
         StageIndex(t) >= StageIndex(pc.stage) => db.rows[t] = <<>>

\* C19 amended: after a fatal failure at stage k the run takes no further
\* step, the store holds the six tables and the tables of the stages after
\* k are empty; the failing statement leaves the committed store as it
\* was, except that a failing conn.commit() may have been carried out; a
\* failure before the commit of stage k leaves the table of k empty, a
\* failure of the commit or of the lookup query after it may leave it
\* populated.
C19_FailureKeepsCommitted ==
  /\ [](FailedAtStage =>
          /\ db.tables = TableNames
          /\ \A t \in TableNames :
               StageIndex(t) > StageIndex(pc.stage) => db.rows[t] = <<>>)
  /\ [][pc.step # "failed"]_vars
  /\ [][(~IsMini /\ pc.stage \in TableNames /\ pc'.step = "failed") =>
          /\ db' = db \/ (pc.step = "commit" /\ db' = tx)
          /\ pc.step \in {"extract", "insert"} => db'.rows[pc.stage] = <<>>]_vars

\* a stage after Region has failed before its commit, with Region rows
\* committed by the stage before it
C19_Witness ==
  /\ FailedAtStage
  /\ pc.stage = "country"
  /\ err = "store"
  /\ Len(db.rows["region"]) > 0
  /\ db.rows["country"] = <<>>


\* C20: when a load has ended, normally or by an exception raised at any
\* stage, the connection (and cursor) it opened is closed.
C20_ConnectionClosedOnReturn ==
  (Done \/ pc.step = "failed") => conn # "open"


\* C21: a statement of a load stage of main changes no table but the
\* stage's own, in the store and in the open transaction, and changes no
\* lookup that has been built.
C21_StageWritesOwnTableOnly ==
  [][(~IsMini /\ pc.stage \in TableNames) =>
       /\ \A t \in TableNames \ {pc.stage} :
            db'.rows[t] = db.rows[t] /\ tx'.rows[t] = tx.rows[t]
       /\ db'.tables = db.tables /\ tx'.tables = tx.tables
       /\ \A s \in built : LookupOf(s)' = LookupOf(s)]_vars

\* the OrderDetail batch is in the open transaction, after the five earlier
\* stages loaded their tables and built their lookups
C21_Witness ==
  /\ At("orderdetail", "commit")
  /\ built = TableNames \ {"orderdetail"}
  /\ \A t \in TableNames : Len(tx.rows[t]) > 0


\* first name, last name, address and city of line i as parse_customers
\* extracts them
CustomerOfLine(i) ==
  LET name_parts == SplitWS(Strip(FieldsOf(i)[1]))
  IN  << name_parts[1],
         Join(SubSeq(name_parts, 2, Len(name_parts)), <<SP>>),
         Strip(FieldsOf(i)[2]), Strip(FieldsOf(i)[3]) >>

\* C25: after a run of main, the order made from position j of line i
\* references the Customer row with the first name, last name, address and
\* city of line i and the Product row with the name, price and category of
\* position j of line i.
C25_OrderRefsOwnLine ==
  Done =>
    \A i \in 1..Len(DataLines(file)) : \A j \in PositionsOf(i) :
      ( /\ Len(FieldsOf(i)) > 10
        /\ OrderCustomer(i) \in DOMAIN cust_map
        /\ OrderPositionValid(i, j)
        /\ ProductPositionValid(i, j) ) =>
        /\ SubSeq(db.rows["customer"][OrderRowAt(i, j)[1]], 1, 4) = CustomerOfLine(i)
        /\ db.rows["product"][OrderRowAt(i, j)[2]] = ProductRowAt(i, j)


\* line i carries orders and its Customer row has been inserted: main keeps
\* a line with a name and a country of the Country table, step5 a line
\* whose country is in the Country table
CustomerInserted(i) ==
  /\ Len(LoaderFields(i)) > 10
  /\ IF IsMini
     THEN \E k \in 1..Len(db.rows["country"]) :
            db.rows["country"][k][1] = LoaderFields(i)[4]
     ELSE /\ Strip(LoaderFields(i)[1]) # <<>>
          /\ Strip(LoaderFields(i)[4]) \in DOMAIN country_map

\* C26: the key the OrderDetail stage computes from the name field of a
\* line whose Customer row was inserted is a key of the customer lookup:
\* cust_map of main after a run, the dictionary of step6 once step5 has
\* returned.
C26_CustomerKeyRoundTrip ==
  /\ Done =>
       \A i \in 1..Len(DataLines(file)) :
         CustomerInserted(i) => OrderCustomer(i) \in DOMAIN cust_map
  /\ (IsMini /\ "step5" \in called) =>
       \A i \in 1..Len(DataLines(file)) :
         CustomerInserted(i) =>
           Join(SplitWS(LoaderFields(i)[1]), <<SP>>) \in DOMAIN step6_dictionary(db)


\* both loaders have completed over the file
BothCompleted ==
  /\ At("mini", "idle")
  /\ called = {StepOrder[k] : k \in 1..Len(StepOrder)}
  /\ db.tables = TableNames

\* C27: when populate_db.main and then the six step functions have
\* completed over the same file, the six tables of the second store hold
\* the rows of the first, in the same order (the same surrogate ids).
C27_LoadersEquivalent ==
  BothCompleted => db.rows = prev


\* C28: a step function of mini_project2 that raises while reading the
\* data file leaves every table of the store with the rows it had before
\* the call.
C28_RaisingStepKeepsStore ==
  [][(At("mini", "idle") /\ pc'.step = "failed" /\ err' = "raise")
       => db'.rows = db.rows]_vars


\* C24: for every reply, the text extract_sql_from_response returns holds
\* no semicolon and is empty or begins with SELECT or WITH.
C24_ExtractsSelectStatement ==
  At("extract", "done") =>
    /\ \A k \in 1..Len(generated_sql) : generated_sql[k] # SEMI
    /\ generated_sql = <<>> \/ BeginsWithKeyword(generated_sql)

\* C22: logged_in becomes true only in an interaction in which Login was
\* clicked with a password that passes the bcrypt check; once true it stays
\* true in every interaction but a click on Logout; it leaves true only by a
\* click on Logout, which sets it to False and ends on the login screen.
C22_LoggedInUntilLogout ==
  [][ /\ (logged_in # "True" /\ logged_in' = "True")
         => /\ view'.clicked = "Login"
            /\ view'.typed # <<>>
            /\ hashpw(view'.typed) = HASHED_PASSWORD
      /\ (logged_in = "True" /\ view'.clicked # "Logout")
         => logged_in' = "True"
      /\ (logged_in = "True" /\ logged_in' # "True")
         => /\ view'.clicked = "Logout"
            /\ logged_in' = "False"
            /\ view'.screen = "login" ]_vars

\* a session that logged in, ran a query, and logged out again
C22_Witness ==
  /\ logged_in = "False"
  /\ view.screen = "login"
  /\ view.clicked = "Logout"
  /\ Len(history) > 0

\* C29: a script run that calls run_query, run_scalar,
\* generate_sql_and_explanation or explain_results is one in which
\* ensure_logged_in found logged_in true; while logged_in is not true the
\* run ends on the login screen.
C29_NoCallUnlessLoggedIn ==
  /\ view.calls # {} => view.auth
  /\ (logged_in # "True" /\ view.screen # "none")
       => (view.screen = "login" /\ view.calls = {})

\* a logged-in run that queried the database and called the language model
C29_Witness ==
  /\ view.auth
  /\ view.calls = {"run_query", "explain_results"}

\* C30: the history changes only by appending one entry, the question and
\* the SQL of a Run Query click whose run_query returned a result, and every
\* such click appends; the Recent Queries panel shows the last entries, at
\* most 6, newest first.
C30_HistoryGrowsByExecutedQueries ==
  [][ /\ history' # history
         => /\ view'.clicked = "Run Query"
            /\ view'.returned.ok
            /\ Len(history') = Len(history) + 1
            /\ SubSeq(history', 1, Len(history)) = history
            /\ history'[Len(history')].q \in Questions
            /\ Strip(strip_sql_comments(history'[Len(history')].sql))
                 = view'.returned.sql
      /\ (view'.clicked = "Run Query" /\ view'.screen = "app"
          /\ view'.returned.ok)
         => history' # history
      /\ view'.screen = "app"
         => /\ Len(view'.recent) <= 6
            /\ Len(view'.recent) <= Len(history')
            /\ Len(history') >= 6 => Len(view'.recent) = 6
            /\ Len(history') < 6 => Len(view'.recent) = Len(history')
            /\ \A k \in 1..Len(view'.recent) :
                 view'.recent[k] = history'[Len(history') - k + 1] ]_vars

\* seven executed queries, six of them shown, the two newest different
C30_Witness ==
  /\ Len(history) = 7
  /\ view.screen = "app"
  /\ Len(view.recent) = 6
  /\ view.recent[1] = history[7]
  /\ view.recent[1] # view.recent[2]

\* C23: what a click on Run Query returns is what executing the edited SQL
\* against the database at the time of the click returns.
C23_RunQueryIsLive ==
  (view.screen = "app" /\ view.clicked = "Run Query")
    => view.returned = view.live

====
